---------------------------- MODULE Spec2Model ----------------------------
(***************************************************************************)
(* A model of the durable-storage layer of agent0-ts:                      *)
(*   - ArweaveClient.get, the parallel gateway retrieval                    *)
(*     (src/src/core/arweave-client.ts);                                    *)
(*   - Agent.registerArweave and its _registrationInProgress guard          *)
(*     (quoted in src/ARWEAVE_INTEGRATION_PLAN.md and                       *)
(*     src/FIXES-APPLIED-SUMMARY.md);                                       *)
(*   - FeedbackManager.giveFeedback's storage selection                     *)
(*     (quoted in src/MAINTAINER-REVIEW.md);                                *)
(*   - formatRegistrationFileForStorage, generateArweaveRegistrationTags    *)
(*     and ArweaveClient.addRegistrationFile (src/src/utils, src/src/core); *)
(*   - SDK._loadRegistrationFile (quoted in                                 *)
(*     src/ARWEAVE_INTEGRATION_PLAN.md).                                    *)
(* Strings are sequences of one-character strings, so that startsWith,      *)
(* slice, trim, includes and concatenation are computed, not assumed.       *)
(***************************************************************************)
EXTENDS Integers, Sequences, FiniteSets, TLC

VARIABLES
    \* ---- ArweaveClient.get ----
    getPc,         \* position of the one get() call
    getArg,        \* the txId argument as passed by the caller
    getTxId,       \* the local txId after the ar:// prefix was removed
    fetchStatus,   \* per gateway: the state of its promise
    fetchValue,    \* per gateway: the response text of a fulfilled fetch
    fetchReason,   \* per gateway: the error of a rejected fetch
    fetchUrl,      \* per gateway: the URL fetched
    firstSettled,  \* index of the gateway whose promise settled first (0: none)
    getResult,     \* the value get() returned
    getError,      \* the message of the Error get() threw
    \* ---- Agent.registerArweave ----
    hasArweaveClient,  \* sdk.arweaveClient is configured
    idForm,        \* the form of the agentId the SDK gives a registered agent
    regValid,      \* per agent: name and description are set
    inProgress,    \* per agent: _registrationInProgress
    agentId,       \* per agent: registrationFile.agentId as a token id (0: none)
    agentURI,      \* per agent: registrationFile.agentURI
    dirty,         \* per agent: _dirtyMetadata
    call,          \* per registerArweave call: its position and locals
    nextToken,     \* the registry's next token id
    nextTx,        \* number of the next Arweave transaction
    arweaveStore,  \* the uploads Arweave holds
    setUriTxs,     \* the setAgentUri transactions submitted to the registry
    \* ---- FeedbackManager.giveFeedback ----
    fbArweave,     \* this.arweaveClient is configured
    fbIpfs,        \* this.ipfsClient is configured
    fbPc,          \* position of the current giveFeedback call
    fbUri,         \* the local feedbackUri (<<>>: none)
    fbTried,       \* the backends whose upload the current call attempted
    fbOutcome,     \* per backend: how its upload ended in the current call
    fbStoredId,    \* the identifier the successful upload returned
    fbErr,         \* the error the current call threw
    fbNextId,      \* number of the next identifier a backend hands out
    fbCalls,       \* number of giveFeedback calls made
    fbChain,       \* the feedback URIs recorded on-chain, in order
    \* ---- formatting, tagging, upload and read-back of a registration file ----
    rec,           \* the registration file (or feedback call) handed to the SDK
    ctxChainId,    \* the chainId argument (0: omitted)
    ctxRegistry,   \* the identityRegistryAddress argument (<<>>: omitted)
    tagsOut,       \* the result of generateArweaveRegistrationTags
    stPc,          \* position of the upload and read-back of rec
    stUpload,      \* what addRegistrationFile handed to Turbo
    stTxId,        \* the transaction id Turbo returned
    stErr,         \* the error addRegistrationFile threw
    stLoaded,      \* the result of JSON.parse in getJson
    \* ---- SDK._loadRegistrationFile ----
    loadPc,        \* position of the one _loadRegistrationFile call
    tokenUri,      \* its argument
    loadClient,    \* this._arweaveClient is configured
    loadFetched,   \* the URLs it fetched itself, outside the Arweave client
    loadResult,    \* what it returned
    loadErr        \* the message of the Error it threw

getVars == <<getPc, getArg, getTxId, fetchStatus, fetchValue, fetchReason, fetchUrl,
             firstSettled, getResult, getError>>

regVars == <<hasArweaveClient, idForm, regValid, inProgress, agentId, agentURI, dirty, call,
             nextToken, nextTx, arweaveStore, setUriTxs>>

fbVars == <<fbArweave, fbIpfs, fbPc, fbUri, fbTried, fbOutcome, fbStoredId, fbErr,
            fbNextId, fbCalls, fbChain>>

docVars == <<rec, ctxChainId, ctxRegistry, tagsOut, stPc, stUpload, stTxId, stErr,
             stLoaded>>

loadVars == <<loadPc, tokenUri, loadClient, loadFetched, loadResult, loadErr>>

vars == <<getVars, regVars, fbVars, docVars, loadVars>>

----------------------------------------------------------------------------
(* Bounds of the model *)

MaxIdLen == 1
NumPayloads == 2
NumAgents == 2
NumCalls == 2
NumFeedbacks == 3
MaxEndpoints == 2
NumInstants == 2

----------------------------------------------------------------------------
(* Strings *)

StartsWith(s, p) ==
    Len(s) >= Len(p) /\ SubSeq(s, 1, Len(p)) = p

Slice(s, n) ==
    SubSeq(s, n + 1, Len(s))

Includes(s, sub) ==
    \E i \in 0..(Len(s) - Len(sub)) : SubSeq(s, i + 1, i + Len(sub)) = sub

IsSpace(c) == c = " "

RECURSIVE TrimStart(_)
TrimStart(s) ==
    IF s # <<>> /\ IsSpace(Head(s)) THEN TrimStart(Tail(s)) ELSE s

RECURSIVE TrimEnd(_)
TrimEnd(s) ==
    IF s # <<>> /\ IsSpace(s[Len(s)]) THEN TrimEnd(SubSeq(s, 1, Len(s) - 1)) ELSE s

Trim(s) == TrimEnd(TrimStart(s))

AR_PREFIX == <<"a", "r", ":", "/", "/">>

(* Number.prototype.toString of a non-negative integer *)
DigitChar(n) == <<"0", "1", "2", "3", "4", "5", "6", "7", "8", "9">>[n + 1]

RECURSIVE NatToString(_)
NatToString(n) ==
    IF n < 10 THEN <<DigitChar(n)>>
    ELSE NatToString(n \div 10) \o <<DigitChar(n % 10)>>

Digits == {"0", "1", "2", "3", "4", "5", "6", "7", "8", "9"}

DigitValue(c) == CHOOSE d \in 0..9 : DigitChar(d) = c

(* String.prototype.split(sep) for a one-character separator *)
RECURSIVE SplitFrom(_, _, _, _)
SplitFrom(s, sep, i, cur) ==
    IF i > Len(s) THEN <<cur>>
    ELSE IF s[i] = sep THEN <<cur>> \o SplitFrom(s, sep, i + 1, <<>>)
    ELSE SplitFrom(s, sep, i + 1, Append(cur, s[i]))

Split(s, sep) == SplitFrom(s, sep, 1, <<>>)

----------------------------------------------------------------------------
(* Constants of the SDK *)

ARWEAVE_GATEWAYS ==
    << <<"g", "1">>, <<"g", "2">>, <<"g", "3">>, <<"g", "4">> >>

NumGateways == Len(ARWEAVE_GATEWAYS)

Gateways == 1..NumGateways

----------------------------------------------------------------------------
(* JavaScript values, and JSON.stringify / JSON.parse over them.  A JSON    *)
(* text is the sequence of its tokens, numbers written in decimal digits.   *)

JsVal(t, n, s, a, o) == [t |-> t, n |-> n, s |-> s, a |-> a, o |-> o]

JsUndefined == JsVal("undefined", 0, <<>>, <<>>, <<>>)

JsNull == JsVal("null", 0, <<>>, <<>>, <<>>)

JsNaN == JsVal("NaN", 0, <<>>, <<>>, <<>>)

JsBool(b) == JsVal("boolean", IF b THEN 1 ELSE 0, <<>>, <<>>, <<>>)

JsNum(n) == JsVal("number", n, <<>>, <<>>, <<>>)

JsStr(s) == JsVal("string", 0, s, <<>>, <<>>)

JsArr(items) == JsVal("array", 0, <<>>, items, <<>>)

(* An object is the sequence of its properties, in insertion order. *)
JsObj(props) == JsVal("object", 0, <<>>, <<>>, props)

Prop(k, v) == [k |-> k, v |-> v]

HasKey(props, k) == \E i \in 1..Len(props) : props[i].k = k

ValueOf(props, k) ==
    IF HasKey(props, k)
    THEN props[CHOOSE i \in 1..Len(props) : props[i].k = k].v
    ELSE JsUndefined

(* obj[k] = v: an existing property keeps its place, a new one is added last *)
SetProp(props, k, v) ==
    IF HasKey(props, k)
    THEN [i \in 1..Len(props) |-> IF props[i].k = k THEN Prop(k, v) ELSE props[i]]
    ELSE Append(props, Prop(k, v))

(* Object.assign(target, source) *)
RECURSIVE ObjectAssign(_, _)
ObjectAssign(target, source) ==
    IF source = <<>> THEN target
    ELSE ObjectAssign(SetProp(target, Head(source).k, Head(source).v), Tail(source))

(* The value of the leading decimal digits of s, given those read so far. *)
RECURSIVE LeadingDigits(_, _, _)
LeadingDigits(s, seen, acc) ==
    IF s # <<>> /\ Head(s) \in Digits
    THEN LeadingDigits(Tail(s), TRUE, acc * 10 + DigitValue(Head(s)))
    ELSE [seen |-> seen, n |-> acc]

(* parseInt(x, 10): leading whitespace is skipped, a sign is read, then the *)
(* leading digits; NaN if there are none.  undefined reads as "undefined".  *)
ParseInt(x) ==
    IF x.t # "string" THEN JsNaN
    ELSE LET t == TrimStart(x.s)
             neg == t # <<>> /\ Head(t) = "-"
             body == IF t # <<>> /\ Head(t) \in {"-", "+"} THEN Tail(t) ELSE t
             r == LeadingDigits(body, FALSE, 0)
         IN  IF r.seen THEN JsNum(IF neg THEN 0 - r.n ELSE r.n) ELSE JsNaN

(* const [, , third] = parts *)
ThirdOf(parts) == IF Len(parts) >= 3 THEN JsStr(parts[3]) ELSE JsUndefined

Tok(k, s) == [k |-> k, s |-> s]

LIT_NULL == <<"n", "u", "l", "l">>

LIT_TRUE == <<"t", "r", "u", "e">>

LIT_FALSE == <<"f", "a", "l", "s", "e">>

NumberText(n) == IF n < 0 THEN <<"-">> \o NatToString(0 - n) ELSE NatToString(n)

(* JSON.stringify: NaN is written as null; a property whose value is        *)
(* undefined is left out; an undefined array element is written as null.    *)
RECURSIVE Stringify(_)
RECURSIVE StringifyItems(_, _)
RECURSIVE StringifyProps(_, _)
Stringify(v) ==
    CASE v.t = "null" -> <<Tok("lit", LIT_NULL)>>
      [] v.t = "NaN" -> <<Tok("lit", LIT_NULL)>>
      [] v.t = "undefined" -> <<Tok("lit", LIT_NULL)>>
      [] v.t = "boolean" -> <<Tok("lit", IF v.n = 1 THEN LIT_TRUE ELSE LIT_FALSE)>>
      [] v.t = "number" -> <<Tok("num", NumberText(v.n))>>
      [] v.t = "string" -> <<Tok("str", v.s)>>
      [] v.t = "array" -> <<Tok("[", <<>>)>> \o StringifyItems(v.a, TRUE) \o <<Tok("]", <<>>)>>
      [] v.t = "object" -> <<Tok("{", <<>>)>> \o StringifyProps(v.o, TRUE) \o <<Tok("}", <<>>)>>

StringifyItems(items, first) ==
    IF items = <<>> THEN <<>>
    ELSE (IF first THEN <<>> ELSE <<Tok(",", <<>>)>>)
         \o Stringify(Head(items)) \o StringifyItems(Tail(items), FALSE)

StringifyProps(props, first) ==
    IF props = <<>> THEN <<>>
    ELSE IF Head(props).v.t = "undefined" THEN StringifyProps(Tail(props), first)
    ELSE (IF first THEN <<>> ELSE <<Tok(",", <<>>)>>)
         \o <<Tok("str", Head(props).k), Tok(":", <<>>)>>
         \o Stringify(Head(props).v) \o StringifyProps(Tail(props), FALSE)

KindAt(toks, i) == IF i <= Len(toks) THEN toks[i].k ELSE "end"

Parsed(ok, v, i) == [ok |-> ok, v |-> v, i |-> i]

ParseFailed == Parsed(FALSE, JsUndefined, 0)

(* JSON.parse by recursive descent: the value that starts at token i, and   *)
(* the index after it; ok is FALSE where JSON.parse throws a SyntaxError.   *)
RECURSIVE ParseValue(_, _)
RECURSIVE ParseItems(_, _, _)
RECURSIVE ParseProps(_, _, _)
ParseValue(toks, i) ==
    LET k == KindAt(toks, i)
    IN  CASE k = "lit" ->
               IF toks[i].s = LIT_NULL THEN Parsed(TRUE, JsNull, i + 1)
               ELSE IF toks[i].s = LIT_TRUE THEN Parsed(TRUE, JsBool(TRUE), i + 1)
               ELSE IF toks[i].s = LIT_FALSE THEN Parsed(TRUE, JsBool(FALSE), i + 1)
               ELSE ParseFailed
          [] k = "num" -> Parsed(TRUE, ParseInt(JsStr(toks[i].s)), i + 1)
          [] k = "str" -> Parsed(TRUE, JsStr(toks[i].s), i + 1)
          [] k = "[" ->
               IF KindAt(toks, i + 1) = "]" THEN Parsed(TRUE, JsArr(<<>>), i + 2)
               ELSE ParseItems(toks, i + 1, <<>>)
          [] k = "{" ->
               IF KindAt(toks, i + 1) = "}" THEN Parsed(TRUE, JsObj(<<>>), i + 2)
               ELSE ParseProps(toks, i + 1, <<>>)
          [] OTHER -> ParseFailed

ParseItems(toks, i, acc) ==
    LET r == ParseValue(toks, i)
    IN  IF ~r.ok THEN ParseFailed
        ELSE IF KindAt(toks, r.i) = "," THEN ParseItems(toks, r.i + 1, Append(acc, r.v))
        ELSE IF KindAt(toks, r.i) = "]" THEN Parsed(TRUE, JsArr(Append(acc, r.v)), r.i + 1)
        ELSE ParseFailed

ParseProps(toks, i, acc) ==
    IF KindAt(toks, i) # "str" \/ KindAt(toks, i + 1) # ":" THEN ParseFailed
    ELSE LET r == ParseValue(toks, i + 2)
         IN  IF ~r.ok THEN ParseFailed
             ELSE IF KindAt(toks, r.i) = ","
                  THEN ParseProps(toks, r.i + 1, SetProp(acc, toks[i].s, r.v))
             ELSE IF KindAt(toks, r.i) = "}"
                  THEN Parsed(TRUE, JsObj(SetProp(acc, toks[i].s, r.v)), r.i + 1)
             ELSE ParseFailed

(* JSON.parse(text): the whole text must be one value. *)
JsonParse(toks) ==
    LET r == ParseValue(toks, 1)
    IN  IF r.ok /\ r.i = Len(toks) + 1 THEN r ELSE ParseFailed

----------------------------------------------------------------------------
(* Registration files: formatRegistrationFileForStorage and                 *)
(* generateArweaveRegistrationTags                                          *)

(* The string literals of formatRegistrationFileForStorage *)
DocText(str) ==
    CASE str = "type" -> <<"t", "y", "p", "e">>
      [] str = "name" -> <<"n", "a", "m", "e">>
      [] str = "description" -> <<"d", "e", "s", "c", "r", "i", "p", "t", "i",
            "o", "n">>
      [] str = "image" -> <<"i", "m", "a", "g", "e">>
      [] str = "endpoints" -> <<"e", "n", "d", "p", "o", "i", "n", "t", "s">>
      [] str = "endpoint" -> <<"e", "n", "d", "p", "o", "i", "n", "t">>
      [] str = "registrations" -> <<"r", "e", "g", "i", "s", "t", "r", "a",
            "t", "i", "o", "n", "s">>
      [] str = "agentId" -> <<"a", "g", "e", "n", "t", "I", "d">>
      [] str = "agentRegistry" -> <<"a", "g", "e", "n", "t", "R", "e", "g",
            "i", "s", "t", "r", "y">>
      [] str = "supportedTrusts" -> <<"s", "u", "p", "p", "o", "r", "t", "e",
            "d", "T", "r", "u", "s", "t", "s">>
      [] str = "active" -> <<"a", "c", "t", "i", "v", "e">>
      [] str = "x402support" -> <<"x", "4", "0", "2", "s", "u", "p", "p", "o",
            "r", "t">>
      [] str = "https://eips.ethereum.org/EIPS/eip-8004#registration-v1" -> <<
            "h", "t", "t", "p", "s", ":", "/", "/", "e", "i", "p", "s", ".",
            "e", "t", "h", "e", "r", "e", "u", "m", ".", "o", "r", "g", "/",
            "E", "I", "P", "S", "/", "e", "i", "p", "-", "8", "0", "0", "4",
            "#", "r", "e", "g", "i", "s", "t", "r", "a", "t", "i", "o", "n",
            "-", "v", "1">>
      [] str = "agentWallet" -> <<"a", "g", "e", "n", "t", "W", "a", "l", "l",
            "e", "t">>
      [] str = "eip155:" -> <<"e", "i", "p", "1", "5", "5", ":">>
      [] str = "eip155:1:{identityRegistry}" -> <<"e", "i", "p", "1", "5", "5",
            ":", "1", ":", "{", "i", "d", "e", "n", "t", "i", "t", "y", "R",
            "e", "g", "i", "s", "t", "r", "y", "}">>

(* The string literals of generateArweaveRegistrationTags and SDK_VERSION *)
TagText(str) ==
    CASE str = "application/json" -> <<"a", "p", "p", "l", "i", "c", "a", "t",
            "i", "o", "n", "/", "j", "s", "o", "n">>
      [] str = "Agent0-v" -> <<"A", "g", "e", "n", "t", "0", "-", "v">>
      [] str = "0.2.1" -> <<"0", ".", "2", ".", "1">>
      [] str = "ERC-8004" -> <<"E", "R", "C", "-", "8", "0", "0", "4">>
      [] str = "agent-registration" -> <<"a", "g", "e", "n", "t", "-", "r",
            "e", "g", "i", "s", "t", "r", "a", "t", "i", "o", "n">>
      [] str = "1.0" -> <<"1", ".", "0">>
      [] str = "true" -> <<"t", "r", "u", "e">>
      [] str = "false" -> <<"f", "a", "l", "s", "e">>
      [] str = "agent-feedback" -> <<"a", "g", "e", "n", "t", "-", "f", "e", "e",
            "d", "b", "a", "c", "k">>
      [] str = "score" -> <<"s", "c", "o", "r", "e">>
      [] str = "tag1" -> <<"t", "a", "g", "1">>
      [] str = "tag2" -> <<"t", "a", "g", "2">>
      [] str = "capability" -> <<"c", "a", "p", "a", "b", "i", "l", "i", "t", "y">>
      [] str = "skill" -> <<"s", "k", "i", "l", "l">>
      [] str = "NaN" -> <<"N", "a", "N">>

(* The string value of an EndpointType member *)
EndpointTypeText(type) ==
    CASE type = "MCP" -> <<"M", "C", "P">>
      [] type = "A2A" -> <<"A", "2", "A">>
      [] type = "ENS" -> <<"E", "N", "S">>

(* `eip155:${chain}:${address}` *)
Eip155(chain, address) ==
    DocText("eip155:") \o NatToString(chain) \o <<":">> \o address

(* The endpoints array: one object per endpoint, name and endpoint first,  *)
(* then the properties of ep.meta assigned over them.                       *)
RECURSIVE FormatEndpoints(_)
FormatEndpoints(eps) ==
    IF eps = <<>> THEN <<>>
    ELSE <<JsObj(ObjectAssign(
               <<Prop(DocText("name"), JsStr(EndpointTypeText(Head(eps).type))),
                 Prop(DocText("endpoint"), JsStr(Head(eps).value))>>,
               Head(eps).meta))>>
         \o FormatEndpoints(Tail(eps))

WalletChainIdContextFirst(rf, chainId) ==
    IF chainId # 0 THEN chainId
    ELSE IF rf.walletChainId # 0 THEN rf.walletChainId
    ELSE 1

(* registrationFile.walletChainId || chainId || 1 *)
WalletChainId(rf, chainId) ==
    IF rf.walletChainId # 0 THEN rf.walletChainId
    ELSE IF chainId # 0 THEN chainId
    ELSE 1

(* The agentWallet endpoint, pushed when walletAddress is set. *)
WalletEndpoints(rf, chainId) ==
    IF rf.walletAddress # <<>>
    THEN <<JsObj(<<Prop(DocText("name"), JsStr(DocText("agentWallet"))),
                   Prop(DocText("endpoint"),
                        JsStr(Eip155(WalletChainId(rf, chainId), rf.walletAddress)))>>)>>
    ELSE <<>>

(* const [, , tokenId] = registrationFile.agentId.split(':') *)
TokenIdPart(id) == ThirdOf(Split(id, ":"))

AgentRegistryWithoutAddress(chainId, registry) ==
    IF chainId # 0
    THEN Eip155(chainId, registry)
    ELSE DocText("eip155:1:{identityRegistry}")

(* chainId && identityRegistryAddress ? `eip155:${chainId}:${address}`      *)
(*                                    : `eip155:1:{identityRegistry}`       *)
AgentRegistry(chainId, registry) ==
    IF chainId # 0 /\ registry # <<>>
    THEN Eip155(chainId, registry)
    ELSE DocText("eip155:1:{identityRegistry}")

NoRegistrations(rf, chainId, registry) == <<>>

(* The registrations array: one entry when agentId is set. *)
FormatRegistrations(rf, chainId, registry) ==
    IF rf.agentId # <<>>
    THEN <<JsObj(<<Prop(DocText("agentId"), ParseInt(TokenIdPart(rf.agentId))),
                   Prop(DocText("agentRegistry"),
                        JsStr(AgentRegistry(chainId, registry)))>>)>>
    ELSE <<>>

RECURSIVE StringValues(_)
StringValues(strs) ==
    IF strs = <<>> THEN <<>> ELSE <<JsStr(Head(strs))>> \o StringValues(Tail(strs))

(* formatRegistrationFileForStorage(registrationFile, chainId,             *)
(* identityRegistryAddress); chainId 0 and registry <<>> stand for omitted  *)
(* arguments.                                                               *)
FormatRegistrationFileForStorage(rf, chainId, registry) ==
    LET endpoints == FormatEndpoints(rf.endpoints) \o WalletEndpoints(rf, chainId)
        registrations == FormatRegistrations(rf, chainId, registry)
    IN  JsObj(
            <<Prop(DocText("type"),
                   JsStr(DocText("https://eips.ethereum.org/EIPS/eip-8004#registration-v1"))),
              Prop(DocText("name"), JsStr(rf.name)),
              Prop(DocText("description"), JsStr(rf.description))>>
            \o (IF rf.image # <<>> THEN <<Prop(DocText("image"), JsStr(rf.image))>> ELSE <<>>)
            \o <<Prop(DocText("endpoints"), JsArr(endpoints))>>
            \o (IF Len(registrations) > 0
                THEN <<Prop(DocText("registrations"), JsArr(registrations))>>
                ELSE <<>>)
            \o (IF Len(rf.trustModels) > 0
                THEN <<Prop(DocText("supportedTrusts"), JsArr(StringValues(rf.trustModels)))>>
                ELSE <<>>)
            \o <<Prop(DocText("active"), JsBool(rf.active)),
                 Prop(DocText("x402support"), JsBool(rf.x402support))>>)

Tag(name, value) == [name |-> name, value |-> value]

(* Boolean.prototype.toString *)
BoolText(b) == IF b THEN TagText("true") ELSE TagText("false")

(* new Date().toISOString() at instant now *)
IsoString(now) == <<"T">> \o NatToString(now) \o <<"Z">>

FirstEndpointIs(rf, type) ==
    rf.endpoints # <<>> /\ rf.endpoints[1].type = type

(* registrationFile.endpoints.some(ep => ep.type === type) *)
SomeEndpoint(rf, type) ==
    \E i \in 1..Len(rf.endpoints) : rf.endpoints[i].type = type

AgentIdTagAlways(rf) == <<Tag("Agent-Id", rf.agentId)>>

(* if (registrationFile.agentId) tags.push({ name: 'Agent-Id', ... }) *)
AgentIdTag(rf) ==
    IF rf.agentId # <<>> THEN <<Tag("Agent-Id", rf.agentId)>> ELSE <<>>

(* generateArweaveRegistrationTags(registrationFile, chainId), called at   *)
(* instant now.                                                             *)
GenerateArweaveRegistrationTags(rf, chainId, now) ==
    <<Tag("Content-Type", TagText("application/json")),
      Tag("App-Name", TagText("Agent0-v") \o TagText("0.2.1")),
      Tag("Protocol", TagText("ERC-8004")),
      Tag("Data-Type", TagText("agent-registration")),
      Tag("Chain-Id", NatToString(chainId)),
      Tag("Schema-Version", TagText("1.0"))>>
    \o AgentIdTag(rf)
    \o <<Tag("Has-MCP", BoolText(SomeEndpoint(rf, "MCP"))),
         Tag("Has-A2A", BoolText(SomeEndpoint(rf, "A2A"))),
         Tag("Has-Wallet", BoolText(rf.walletAddress # <<>>)),
         Tag("Active", BoolText(rf.active)),
         Tag("Timestamp", IsoString(now))>>

RegistrationUploadWithoutRegistry(rf, chainId, registry, now) ==
    [data |-> FormatRegistrationFileForStorage(rf, chainId, <<>>),
     text |-> Stringify(FormatRegistrationFileForStorage(rf, chainId, <<>>)),
     tagged |-> chainId # 0,
     tags |-> IF chainId # 0 THEN GenerateArweaveRegistrationTags(rf, chainId, now)
              ELSE <<>>]

StringTagEvenIfEmpty(feedbackFile, key, name) ==
    LET v == ValueOf(feedbackFile.o, TagText(key))
    IN  IF v.t = "string" THEN <<Tag(name, v.s)>> ELSE <<>>

(* const x = feedbackFile[key];                                             *)
(* if (typeof x === 'string' && x) tags.push({ name, value: x })            *)
StringTag(feedbackFile, key, name) ==
    LET v == ValueOf(feedbackFile.o, TagText(key))
    IN  IF v.t = "string" /\ v.s # <<>> THEN <<Tag(name, v.s)>> ELSE <<>>

(* generateArweaveFeedbackTags(feedbackFile, chainId, agentId,              *)
(* clientAddress), called at instant now; <<>> stands for an omitted        *)
(* agentId or clientAddress. typeof NaN is 'number'.                        *)
GenerateArweaveFeedbackTags(feedbackFile, chainId, id, clientAddress, now) ==
    LET score == ValueOf(feedbackFile.o, TagText("score"))
    IN  <<Tag("Content-Type", TagText("application/json")),
          Tag("App-Name", TagText("Agent0-v") \o TagText("0.2.1")),
          Tag("Protocol", TagText("ERC-8004")),
          Tag("Data-Type", TagText("agent-feedback")),
          Tag("Chain-Id", NatToString(chainId)),
          Tag("Schema-Version", TagText("1.0"))>>
        \o (IF id # <<>> THEN <<Tag("Agent-Id", id)>> ELSE <<>>)
        \o (IF clientAddress # <<>> THEN <<Tag("Reviewer", clientAddress)>> ELSE <<>>)
        \o (IF score.t = "number" THEN <<Tag("Score", NumberText(score.n))>>
            ELSE IF score.t = "NaN" THEN <<Tag("Score", TagText("NaN"))>>
            ELSE <<>>)
        \o StringTag(feedbackFile, "tag1", "Tag1")
        \o StringTag(feedbackFile, "tag2", "Tag2")
        \o StringTag(feedbackFile, "capability", "Capability")
        \o StringTag(feedbackFile, "skill", "Skill")
        \o <<Tag("Timestamp", IsoString(now))>>

(* addRegistrationFile's upload: the formatted document (data), its JSON   *)
(* text, and the tags when chainId is given (undefined otherwise).          *)
RegistrationUpload(rf, chainId, registry, now) ==
    [data |-> FormatRegistrationFileForStorage(rf, chainId, registry),
     text |-> Stringify(FormatRegistrationFileForStorage(rf, chainId, registry)),
     tagged |-> chainId # 0,
     tags |-> IF chainId # 0 THEN GenerateArweaveRegistrationTags(rf, chainId, now)
              ELSE <<>>]

----------------------------------------------------------------------------
(* ArweaveClient.get *)

IdAlphabet == {"x", " "}

RECURSIVE StringsUpTo(_)
StringsUpTo(n) ==
    IF n = 0 THEN {<<>>}
    ELSE LET shorter == StringsUpTo(n - 1)
         IN  shorter \cup {Append(s, c) : s \in shorter, c \in IdAlphabet}

TxIdArgs ==
    LET bare == StringsUpTo(MaxIdLen)
    IN  bare \cup {AR_PREFIX \o s : s \in bare}

Payloads == 1..NumPayloads

RejectReasons == {"HTTP 404", "network error", "TimeoutError"}

NormaliseKeepPrefix(txId) == txId

NormaliseTxId(txId) ==
    IF StartsWith(txId, AR_PREFIX) THEN Slice(txId, 5) ELSE txId

IsInvalidTxId(txId) ==
    txId = <<>> \/ Trim(txId) = <<>>

INVALID_TXID_MSG ==
    <<"I", "n", "v", "a", "l", "i", "d", " ", "t", "r", "a", "n", "s", "a",
      "c", "t", "i", "o", "n", " ", "I", "D", ":", " ", "e", "m", "p", "t",
      "y", " ", "o", "r", " ", "u", "n", "d", "e", "f", "i", "n", "e", "d">>

ALL_FAILED_MSG ==
    <<"F", "a", "i", "l", "e", "d", " ", "t", "o", " ", "r", "e", "t", "r",
      "i", "e", "v", "e", " ", "d", "a", "t", "a", " ", "f", "r", "o", "m",
      " ", "a", "l", "l", " ", "A", "r", "w", "e", "a", "v", "e", " ", "g",
      "a", "t", "e", "w", "a", "y", "s", ".", " ", "T", "r", "a", "n", "s",
      "a", "c", "t", "i", "o", "n", " ", "I", "D", ":", " ">>

GatewayUrl(g, txId) == ARWEAVE_GATEWAYS[g] \o <<"/">> \o txId

AllFailedMessageNoId(txId) == ALL_FAILED_MSG

AllFailedMessage(txId) == ALL_FAILED_MSG \o txId

AnySettledOrFulfilled(status) ==
    \/ \E g \in Gateways : status[g] = "fulfilled"
    \/ \A g \in Gateways : status[g] # "pending"

AllFulfilled(status) ==
    \A g \in Gateways : status[g] = "fulfilled"

AllSettled(status) ==
    \A g \in Gateways : status[g] # "pending"

FirstFinishedFulfilled(status) ==
    IF \E g \in Gateways : status[g] = "fulfilled"
    THEN IF firstSettled # 0 /\ status[firstSettled] = "fulfilled"
         THEN firstSettled
         ELSE CHOOSE g \in Gateways :
                /\ status[g] = "fulfilled"
                /\ \A h \in Gateways : status[h] = "fulfilled" => g <= h
    ELSE 0

FirstFulfilled(status) ==
    IF \E g \in Gateways : status[g] = "fulfilled"
    THEN CHOOSE g \in Gateways :
            /\ status[g] = "fulfilled"
            /\ \A h \in Gateways : status[h] = "fulfilled" => g <= h
    ELSE 0

GetInit ==
    /\ getPc = "idle"
    /\ getArg = <<>>
    /\ getTxId = <<>>
    /\ fetchStatus = [g \in Gateways |-> "none"]
    /\ fetchValue = [g \in Gateways |-> 0]
    /\ fetchReason = [g \in Gateways |-> ""]
    /\ fetchUrl = [g \in Gateways |-> <<>>]
    /\ firstSettled = 0
    /\ getResult = 0
    /\ getError = <<>>

(* get(txId) up to its first await: the prefix is removed, the identifier  *)
(* validated, and one fetch per gateway is issued.                          *)
GetStart(arg) ==
    /\ getPc = "idle"
    /\ getArg' = arg
    /\ LET txId == NormaliseTxId(arg)
       IN  /\ getTxId' = txId
           /\ IF IsInvalidTxId(txId)
              THEN /\ getPc' = "thrown"
                   /\ getError' = INVALID_TXID_MSG
                   /\ UNCHANGED <<fetchStatus, fetchUrl>>
              ELSE /\ getPc' = "awaiting"
                   /\ getError' = getError
                   /\ fetchStatus' = [g \in Gateways |-> "pending"]
                   /\ fetchUrl' = [g \in Gateways |-> GatewayUrl(g, txId)]
    /\ UNCHANGED <<fetchValue, fetchReason, firstSettled, getResult>>

(* A call of get from outside the SDK. *)
GetCall(arg) ==
    /\ GetStart(arg)
    /\ UNCHANGED <<regVars, fbVars, docVars, loadVars>>

(* One gateway's promise fulfils: response.ok, and response.text() is its  *)
(* value.                                                                   *)
FetchFulfil(g, body) ==
    /\ getPc = "awaiting"
    /\ UNCHANGED <<regVars, fbVars, docVars, loadVars>>
    /\ fetchStatus[g] = "pending"
    /\ fetchStatus' = [fetchStatus EXCEPT ![g] = "fulfilled"]
    /\ fetchValue' = [fetchValue EXCEPT ![g] = body]
    /\ firstSettled' = IF firstSettled = 0 THEN g ELSE firstSettled
    /\ UNCHANGED <<getPc, getArg, getTxId, fetchReason, fetchUrl, getResult, getError>>

(* One gateway's promise rejects: a non-OK status, a network error, or the *)
(* abort of AbortSignal.timeout(TIMEOUTS.ARWEAVE_GATEWAY).                  *)
FetchReject(g, reason) ==
    /\ getPc = "awaiting"
    /\ UNCHANGED <<regVars, fbVars, docVars, loadVars>>
    /\ fetchStatus[g] = "pending"
    /\ fetchStatus' = [fetchStatus EXCEPT ![g] = "rejected"]
    /\ fetchReason' = [fetchReason EXCEPT ![g] = reason]
    /\ firstSettled' = IF firstSettled = 0 THEN g ELSE firstSettled
    /\ UNCHANGED <<getPc, getArg, getTxId, fetchValue, fetchUrl, getResult, getError>>

(* The continuation of `await Promise.allSettled(promises)`: the results   *)
(* are scanned in gateway order.                                            *)
GetResume ==
    /\ getPc = "awaiting"
    /\ UNCHANGED <<regVars, fbVars, docVars, loadVars>>
    /\ AllSettled(fetchStatus)
    /\ LET g == FirstFulfilled(fetchStatus)
       IN  IF g # 0
           THEN /\ getPc' = "returned"
                /\ getResult' = fetchValue[g]
                /\ getError' = getError
           ELSE /\ getPc' = "thrown"
                /\ getResult' = getResult
                /\ getError' = AllFailedMessage(getTxId)
    /\ UNCHANGED <<getArg, getTxId, fetchStatus, fetchValue, fetchReason, fetchUrl,
                   firstSettled>>

GetNext ==
    \/ \E arg \in TxIdArgs : GetCall(arg)
    \/ \E g \in Gateways, body \in Payloads : FetchFulfil(g, body)
    \/ \E g \in Gateways, reason \in RejectReasons : FetchReject(g, reason)
    \/ GetResume

----------------------------------------------------------------------------
(* Agent.registerArweave and the _registrationInProgress guard *)

Agents == 1..NumAgents

Calls == 1..NumCalls

(* The transaction id Turbo returns for the n-th upload. *)
TxIdString(n) == <<"t", "x">> \o NatToString(n)

IPFS_PREFIX == <<"i", "p", "f", "s", ":", "/", "/">>

IpfsUriFor(id) == IPFS_PREFIX \o id

UriWithIpfsScheme(id) == IPFS_PREFIX \o id

(* `ar://${txId}` *)
ArweaveUriFor(id) == AR_PREFIX \o id

(* The chain the SDK is configured for, and its identity registry. *)
SDK_CHAIN_ID == 11155111

REGISTRY_ADDRESS == <<"0", "x", "r">>

(* The forms of agentId in the SDK: '11155111:123' and '11155111:0:123'. *)
AgentIdForms == {"chainId:tokenId", "chainId:0:tokenId"}

AgentIdText(form, chainId, tokenId) ==
    IF form = "chainId:tokenId"
    THEN NatToString(chainId) \o <<":">> \o NatToString(tokenId)
    ELSE NatToString(chainId) \o <<":", "0", ":">> \o NatToString(tokenId)

ERR_IN_PROGRESS == "Registration already in progress"

ERR_NAME_DESCRIPTION == "Agent must have name and description before registration"

ERR_NO_ARWEAVE_CLIENT == "Arweave client not configured"

UploadErrors == {"Turbo upload failed due to service limits", "Arweave upload failed"}

MetadataKeys == {"testKey"}

InFlightPcs ==
    {"registering", "context", "uploading", "metadata", "settingUri", "waiting", "ipfs"}

IdleCall ==
    [pc |-> "idle", agent |-> 0, path |-> "none", txId |-> <<>>, uri |-> <<>>,
     err |-> "", sawBusy |-> FALSE, uploads |-> 0, chainCalls |-> 0,
     timedOut |-> FALSE, method |-> "none"]

(* sawBusy records, for the claims, whether another call on the same agent *)
(* was between its start and its end when this call started; timedOut,     *)
(* whether its wait for the confirmation of setAgentUri timed out.         *)
OtherInFlight(c, a) ==
    \E d \in Calls : d # c /\ call[d].agent = a /\ call[d].pc \in InFlightPcs

GuardNeverSet(a) == FALSE

GuardOnlyWhenRegistered(a) == inProgress[a] /\ agentId[a] # 0

(* if (this._registrationInProgress) *)
GuardSet(a) == inProgress[a]

KeepGuard(flags, a) == flags

(* finally { this._registrationInProgress = false; } after a throw *)
ReleaseOnThrow(flags, a) == [flags EXCEPT ![a] = FALSE]

(* finally { this._registrationInProgress = false; } after the return *)
ReleaseOnReturn(flags, a) == [flags EXCEPT ![a] = FALSE]

RegInit ==
    /\ hasArweaveClient \in BOOLEAN
    /\ idForm \in AgentIdForms
    /\ regValid \in [Agents -> BOOLEAN]
    /\ inProgress = [a \in Agents |-> FALSE]
    /\ agentId = [a \in Agents |-> 0]
    /\ agentURI = [a \in Agents |-> <<>>]
    /\ dirty = [a \in Agents |-> {}]
    /\ call = [c \in Calls |-> IdleCall]
    /\ nextToken = 1
    /\ nextTx = 1
    /\ arweaveStore = {}
    /\ setUriTxs = {}

(* The state the registration component is left in by the specifications   *)
(* of the other components.                                                 *)
RegParked ==
    /\ hasArweaveClient = TRUE
    /\ idForm = "chainId:tokenId"
    /\ regValid = [a \in Agents |-> TRUE]
    /\ inProgress = [a \in Agents |-> FALSE]
    /\ agentId = [a \in Agents |-> 0]
    /\ agentURI = [a \in Agents |-> <<>>]
    /\ dirty = [a \in Agents |-> {}]
    /\ call = [c \in Calls |-> IdleCall]
    /\ nextToken = 1
    /\ nextTx = 1
    /\ arweaveStore = {}
    /\ setUriTxs = {}

(* this.registrationFile of agent a *)
RegistrationFileOf(a) ==
    [agentId |-> IF agentId[a] = 0 THEN <<>>
                 ELSE AgentIdText(idForm, SDK_CHAIN_ID, agentId[a]),
     name |-> IF regValid[a] THEN <<"n">> ELSE <<>>,
     description |-> IF regValid[a] THEN <<"d">> ELSE <<>>,
     image |-> <<>>,
     endpoints |-> <<>>,
     trustModels |-> <<>>,
     active |-> TRUE,
     x402support |-> FALSE,
     walletAddress |-> <<>>,
     walletChainId |-> 0]

(* A throw inside the try block: the finally block runs, the promise       *)
(* rejects.                                                                 *)
ThrowFrom(c, e) ==
    /\ call' = [call EXCEPT ![c].pc = "thrown", ![c].err = e]
    /\ inProgress' = ReleaseOnThrow(inProgress, call[c].agent)

(* agent.setMetadata: the key is tracked in _dirtyMetadata. *)
SetMetadata(a, k) ==
    /\ k \notin dirty[a]
    /\ dirty' = [dirty EXCEPT ![a] = @ \cup {k}]
    /\ UNCHANGED <<hasArweaveClient, idForm, regValid, inProgress, agentId, agentURI, call,
                   nextToken, nextTx, arweaveStore, setUriTxs>>
    /\ UNCHANGED <<getVars, fbVars, docVars, loadVars>>

(* registerArweave() up to its first await: the guard, the validation, and *)
(* the choice between the update path and the first-time path.  Calls are  *)
(* numbered in the order in which they are made, agents in the order of    *)
(* their first call.                                                        *)
RegisterArweave(c, a) ==
    /\ call[c].pc = "idle"
    /\ \A d \in Calls : d < c => call[d].pc # "idle"
    /\ \A b \in Agents : b < a => \E d \in Calls : call[d].agent = b
    /\ LET started == [call[c] EXCEPT !.agent = a, !.sawBusy = OtherInFlight(c, a),
                                      !.method = "arweave"]
           acquired == [inProgress EXCEPT ![a] = TRUE]
       IN  IF GuardSet(a)
           THEN /\ call' = [call EXCEPT ![c] =
                               [started EXCEPT !.pc = "thrown", !.err = ERR_IN_PROGRESS]]
                /\ UNCHANGED inProgress
           ELSE IF ~regValid[a]
           THEN /\ call' = [call EXCEPT ![c] =
                               [started EXCEPT !.pc = "thrown", !.err = ERR_NAME_DESCRIPTION]]
                /\ inProgress' = ReleaseOnThrow(acquired, a)
           ELSE IF ~hasArweaveClient
           THEN /\ call' = [call EXCEPT ![c] =
                               [started EXCEPT !.pc = "thrown", !.err = ERR_NO_ARWEAVE_CLIENT]]
                /\ inProgress' = ReleaseOnThrow(acquired, a)
           ELSE IF agentId[a] # 0
           THEN /\ call' = [call EXCEPT ![c] =
                               [started EXCEPT !.pc = "context", !.path = "update"]]
                /\ inProgress' = acquired
           ELSE /\ call' = [call EXCEPT ![c] =
                               [started EXCEPT !.pc = "registering", !.path = "first",
                                               !.chainCalls = @ + 1]]
                /\ inProgress' = acquired
    /\ UNCHANGED <<hasArweaveClient, idForm, regValid, agentId, agentURI, dirty,
                   nextToken, nextTx, arweaveStore, setUriTxs>>
    /\ UNCHANGED <<getVars, fbVars, docVars, loadVars>>

(* await this._registerWithoutUri(): the registry mints the token with an  *)
(* empty URI, or the call fails.                                            *)
RegisterWithoutUriDone(c, ok) ==
    /\ call[c].pc = "registering"
    /\ IF ok
       THEN /\ agentId' = [agentId EXCEPT ![call[c].agent] = nextToken]
            /\ nextToken' = nextToken + 1
            /\ call' = [call EXCEPT ![c].pc = "context"]
            /\ UNCHANGED inProgress
       ELSE /\ ThrowFrom(c, "registration transaction failed")
            /\ UNCHANGED <<agentId, nextToken>>
    /\ UNCHANGED <<hasArweaveClient, idForm, regValid, agentURI, dirty, nextTx, arweaveStore,
                   setUriTxs>>
    /\ UNCHANGED <<getVars, fbVars, docVars, loadVars>>

(* await this.sdk.chainId() and getIdentityRegistry().getAddress(); on     *)
(* success arweaveClient.addRegistrationFile is called.                     *)
ContextDone(c, ok) ==
    /\ call[c].pc = "context"
    /\ IF ok
       THEN /\ call' = [call EXCEPT ![c].pc = "uploading", ![c].uploads = @ + 1]
            /\ UNCHANGED inProgress
       ELSE ThrowFrom(c, "RPC error")
    /\ UNCHANGED <<hasArweaveClient, idForm, regValid, agentId, agentURI, dirty,
                   nextToken, nextTx, arweaveStore, setUriTxs>>
    /\ UNCHANGED <<getVars, fbVars, docVars, loadVars>>

(* The upload succeeded: Arweave holds the JSON text and the tags that     *)
(* addRegistrationFile made of the registration file, which no step        *)
(* changes while the upload is awaited.  On the update path with dirty     *)
(* metadata _updateMetadataOnChain is called, otherwise setAgentUri is     *)
(* sent with `ar://${txId}`.                                                *)
UploadOk(c) ==
    /\ call[c].pc = "uploading"
    /\ LET a == call[c].agent
           id == TxIdString(nextTx)
           up == RegistrationUpload(RegistrationFileOf(a), SDK_CHAIN_ID,
                                    REGISTRY_ADDRESS, nextTx)
       IN  /\ arweaveStore' = arweaveStore \cup
                  {[txId |-> id, agent |-> a, agentId |-> agentId[a], by |-> c,
                    text |-> up.text, tags |-> up.tags]}
           /\ IF call[c].path = "update" /\ dirty[a] # {}
              THEN call' = [call EXCEPT ![c].pc = "metadata", ![c].txId = id,
                                        ![c].chainCalls = @ + 1]
              ELSE call' = [call EXCEPT ![c].pc = "settingUri", ![c].txId = id,
                                        ![c].uri = ArweaveUriFor(id),
                                        ![c].chainCalls = @ + 1]
    /\ nextTx' = nextTx + 1
    /\ UNCHANGED <<hasArweaveClient, idForm, regValid, inProgress, agentId, agentURI, dirty,
                   nextToken, setUriTxs>>
    /\ UNCHANGED <<getVars, fbVars, docVars, loadVars>>

UploadErrorSwallowed(c, e) ==
    /\ call[c].pc = "uploading"
    /\ call' = [call EXCEPT ![c].pc = "settingUri", ![c].err = e,
                            ![c].chainCalls = @ + 1]
    /\ UNCHANGED <<hasArweaveClient, idForm, regValid, inProgress, agentId, agentURI,
                   dirty, nextToken, nextTx, arweaveStore, setUriTxs>>
    /\ UNCHANGED <<getVars, fbVars, docVars, loadVars>>

(* The upload failed: ArweaveClient.add rethrows, registerArweave does not *)
(* catch.                                                                   *)
UploadFail(c, e) ==
    /\ call[c].pc = "uploading"
    /\ ThrowFrom(c, e)
    /\ UNCHANGED <<hasArweaveClient, idForm, regValid, agentId, agentURI, dirty,
                   nextToken, nextTx, arweaveStore, setUriTxs>>
    /\ UNCHANGED <<getVars, fbVars, docVars, loadVars>>

(* await this._updateMetadataOnChain() inside try/catch: its failure is    *)
(* swallowed; setAgentUri is sent next.                                     *)
MetadataDone(c, ok) ==
    /\ call[c].pc = "metadata"
    /\ call' = [call EXCEPT ![c].pc = "settingUri",
                            ![c].uri = ArweaveUriFor(call[c].txId),
                            ![c].chainCalls = @ + 1]
    /\ UNCHANGED <<hasArweaveClient, idForm, regValid, inProgress, agentId, agentURI, dirty,
                   nextToken, nextTx, arweaveStore, setUriTxs>>
    /\ UNCHANGED <<getVars, fbVars, docVars, loadVars>>

(* await transactContract(registry, 'setAgentUri', tokenId, uri): the      *)
(* transaction is submitted and waitForTransaction called, or the call     *)
(* throws.                                                                  *)
SetUriDone(c, ok) ==
    /\ call[c].pc = "settingUri"
    /\ IF ok
       THEN /\ setUriTxs' = setUriTxs \cup
                   {[tokenId |-> agentId[call[c].agent], uri |-> call[c].uri, by |-> c]}
            /\ call' = [call EXCEPT ![c].pc = "waiting", ![c].chainCalls = @ + 1]
            /\ UNCHANGED inProgress
       ELSE /\ ThrowFrom(c, "setAgentUri transaction failed")
            /\ UNCHANGED setUriTxs
    /\ UNCHANGED <<hasArweaveClient, idForm, regValid, agentId, agentURI, dirty,
                   nextToken, nextTx, arweaveStore>>
    /\ UNCHANGED <<getVars, fbVars, docVars, loadVars>>

KeepDirty(flags, a) == flags

(* this._dirtyMetadata.clear() *)
ClearDirty(flags, a) == [flags EXCEPT ![a] = {}]

(* await waitForTransaction(txHash, TIMEOUTS.TRANSACTION_WAIT).  On the    *)
(* update path it stands in try/catch; on the first-time path it does not. *)
(* Then the dirty flags are cleared, agentURI is set, the file returned.   *)
WaitDone(c, ok) ==
    /\ call[c].pc = "waiting"
    /\ LET a == call[c].agent
       IN  IF ok \/ call[c].path = "update"
           THEN /\ dirty' = ClearDirty(dirty, a)
                /\ agentURI' = [agentURI EXCEPT ![a] = ArweaveUriFor(call[c].txId)]
                /\ call' = [call EXCEPT ![c].pc = "returned", ![c].timedOut = ~ok]
                /\ inProgress' = ReleaseOnReturn(inProgress, a)
           ELSE /\ call' = [call EXCEPT ![c].pc = "thrown", ![c].timedOut = TRUE,
                                        ![c].err = "Transaction wait timed out"]
                /\ inProgress' = ReleaseOnThrow(inProgress, a)
                /\ UNCHANGED <<dirty, agentURI>>
    /\ UNCHANGED <<hasArweaveClient, idForm, regValid, agentId, nextToken, nextTx,
                   arweaveStore, setUriTxs>>
    /\ UNCHANGED <<getVars, fbVars, docVars, loadVars>>

RegNext ==
    \/ \E a \in Agents, k \in MetadataKeys : SetMetadata(a, k)
    \/ \E c \in Calls, a \in Agents : RegisterArweave(c, a)
    \/ \E c \in Calls, ok \in BOOLEAN : RegisterWithoutUriDone(c, ok)
    \/ \E c \in Calls, ok \in BOOLEAN : ContextDone(c, ok)
    \/ \E c \in Calls : UploadOk(c)
    \/ \E c \in Calls, e \in UploadErrors : UploadFail(c, e)
    \/ \E c \in Calls, ok \in BOOLEAN : MetadataDone(c, ok)
    \/ \E c \in Calls, ok \in BOOLEAN : SetUriDone(c, ok)
    \/ \E c \in Calls, ok \in BOOLEAN : WaitDone(c, ok)

----------------------------------------------------------------------------
(* FeedbackManager.giveFeedback: the choice of the storage backend *)

Backends == {"arweave", "ipfs"}

(* The content identifier IPFS returns for the n-th upload. *)
CidString(n) == <<"Q", "m">> \o NatToString(n)

UploadErrorsOf(b) ==
    IF b = "arweave" THEN UploadErrors ELSE {"IPFS upload failed"}

FeedbackUploadErrors == UNION {UploadErrorsOf(b) : b \in Backends}

IpfsFirst ==
    IF fbIpfs THEN "ipfs" ELSE IF fbArweave THEN "arweave" ELSE "none"

(* if (this.arweaveClient) { ... } else if (this.ipfsClient) { ... } *)
SelectedBackend ==
    IF fbArweave THEN "arweave" ELSE IF fbIpfs THEN "ipfs" ELSE "none"

UploadErrorPropagates(e) == [pc |-> "thrown", err |-> e]

(* catch (error) { /* continue without storage */ } *)
UploadErrorCaught(e) == [pc |-> "submitting", err |-> ""]

FbInit ==
    /\ fbArweave \in BOOLEAN
    /\ fbIpfs \in BOOLEAN
    /\ fbPc = "idle"
    /\ fbUri = <<>>
    /\ fbTried = {}
    /\ fbOutcome = [b \in Backends |-> "none"]
    /\ fbStoredId = <<>>
    /\ fbErr = ""
    /\ fbNextId = 1
    /\ fbCalls = 0
    /\ fbChain = <<>>

FbParked ==
    /\ fbArweave = TRUE
    /\ fbIpfs = TRUE
    /\ fbPc = "idle"
    /\ fbUri = <<>>
    /\ fbTried = {}
    /\ fbOutcome = [b \in Backends |-> "none"]
    /\ fbStoredId = <<>>
    /\ fbErr = ""
    /\ fbNextId = 1
    /\ fbCalls = 0
    /\ fbChain = <<>>

(* giveFeedback() up to the upload it starts: Arweave if its client is     *)
(* configured, else IPFS if its client is, else none.  A call starts when  *)
(* the previous one has ended.                                              *)
GiveFeedback ==
    /\ fbPc \in {"idle", "returned", "thrown"}
    /\ fbCalls < NumFeedbacks
    /\ fbCalls' = fbCalls + 1
    /\ fbUri' = <<>>
    /\ fbOutcome' = [b \in Backends |-> "none"]
    /\ fbStoredId' = <<>>
    /\ fbErr' = ""
    /\ LET b == SelectedBackend
       IN  IF b = "none"
           THEN /\ fbPc' = "submitting"
                /\ fbTried' = {}
           ELSE /\ fbPc' = b
                /\ fbTried' = {b}
    /\ UNCHANGED <<fbArweave, fbIpfs, fbNextId, fbChain>>
    /\ UNCHANGED <<getVars, regVars, docVars, loadVars>>

(* await this.arweaveClient.addFeedbackFile(...) returned txId:            *)
(* feedbackUri = `ar://${txId}`.                                            *)
ArweaveFeedbackOk ==
    /\ fbPc = "arweave"
    /\ fbStoredId' = TxIdString(fbNextId)
    /\ fbUri' = ArweaveUriFor(TxIdString(fbNextId))
    /\ fbNextId' = fbNextId + 1
    /\ fbOutcome' = [fbOutcome EXCEPT !["arweave"] = "ok"]
    /\ fbPc' = "submitting"
    /\ UNCHANGED <<fbArweave, fbIpfs, fbTried, fbErr, fbCalls, fbChain>>
    /\ UNCHANGED <<getVars, regVars, docVars, loadVars>>

(* await this.ipfsClient.addJson(feedbackFile) returned cid:               *)
(* feedbackUri = `ipfs://${cid}`.                                           *)
IpfsFeedbackOk ==
    /\ fbPc = "ipfs"
    /\ fbStoredId' = CidString(fbNextId)
    /\ fbUri' = IpfsUriFor(CidString(fbNextId))
    /\ fbNextId' = fbNextId + 1
    /\ fbOutcome' = [fbOutcome EXCEPT !["ipfs"] = "ok"]
    /\ fbPc' = "submitting"
    /\ UNCHANGED <<fbArweave, fbIpfs, fbTried, fbErr, fbCalls, fbChain>>
    /\ UNCHANGED <<getVars, regVars, docVars, loadVars>>

(* The upload the call awaits throws: the catch block of that branch runs. *)
FeedbackUploadFail(e) ==
    /\ fbPc \in Backends
    /\ e \in UploadErrorsOf(fbPc)
    /\ fbOutcome' = [fbOutcome EXCEPT ![fbPc] = "failed"]
    /\ fbPc' = UploadErrorCaught(e).pc
    /\ fbErr' = UploadErrorCaught(e).err
    /\ UNCHANGED <<fbArweave, fbIpfs, fbUri, fbTried, fbStoredId, fbNextId, fbCalls,
                   fbChain>>
    /\ UNCHANGED <<getVars, regVars, docVars, loadVars>>

(* The on-chain giveFeedback transaction carrying feedbackUri (empty when  *)
(* no upload succeeded): the call returns, or the transaction fails.       *)
FeedbackSubmitDone(ok) ==
    /\ fbPc = "submitting"
    /\ IF ok
       THEN /\ fbChain' = Append(fbChain, fbUri)
            /\ fbPc' = "returned"
            /\ fbErr' = fbErr
       ELSE /\ fbChain' = fbChain
            /\ fbPc' = "thrown"
            /\ fbErr' = "giveFeedback transaction failed"
    /\ UNCHANGED <<fbArweave, fbIpfs, fbUri, fbTried, fbOutcome, fbStoredId, fbNextId,
                   fbCalls>>
    /\ UNCHANGED <<getVars, regVars, docVars, loadVars>>

FbNext ==
    \/ GiveFeedback
    \/ ArweaveFeedbackOk
    \/ IpfsFeedbackOk
    \/ \E e \in FeedbackUploadErrors : FeedbackUploadFail(e)
    \/ \E ok \in BOOLEAN : FeedbackSubmitDone(ok)

----------------------------------------------------------------------------
(* The registration files and chain contexts the SDK's functions are given *)

Endpoint(type, value, meta) == [type |-> type, value |-> value, meta |-> meta]

EndpointChoices ==
    {Endpoint("MCP", <<"m">>, <<>>),
     Endpoint("MCP", <<"m", "2">>,
              <<Prop(<<"v", "e", "r", "s", "i", "o", "n">>, JsStr(<<"1">>))>>),
     Endpoint("A2A", <<"a">>, <<>>),
     Endpoint("ENS", <<"e">>, <<>>)}

RECURSIVE SeqsUpTo(_, _)
SeqsUpTo(S, n) ==
    IF n = 0 THEN {<<>>}
    ELSE LET shorter == SeqsUpTo(S, n - 1)
         IN  shorter \cup {Append(q, x) : q \in shorter, x \in S}

AgentIds == {<<>>} \cup {AgentIdText(f, SDK_CHAIN_ID, 123) : f \in AgentIdForms}

RegistrationFiles ==
    [agentId : AgentIds,
     name : {<<"n">>},
     description : {<<"d">>},
     image : {<<>>, <<"i">>},
     endpoints : SeqsUpTo(EndpointChoices, MaxEndpoints),
     trustModels : {<<>>, <<<<"r">>>>},
     active : BOOLEAN,
     x402support : BOOLEAN,
     walletAddress : {<<>>, <<"0", "x", "a">>},
     walletChainId : {0, 8453}]

(* A file with every optional part absent, and one with every one present. *)
PlainFile(id) ==
    [agentId |-> id, name |-> <<"n">>, description |-> <<"d">>, image |-> <<>>,
     endpoints |-> <<>>, trustModels |-> <<>>, active |-> FALSE,
     x402support |-> FALSE, walletAddress |-> <<>>, walletChainId |-> 0]

FullFile(id) ==
    [agentId |-> id, name |-> <<"n">>, description |-> <<"d">>, image |-> <<"i">>,
     endpoints |-> <<Endpoint("MCP", <<"m", "2">>,
                              <<Prop(<<"v", "e", "r", "s", "i", "o", "n">>, JsStr(<<"1">>))>>),
                     Endpoint("A2A", <<"a">>, <<>>)>>,
     trustModels |-> <<<<"r">>>>, active |-> TRUE,
     x402support |-> TRUE, walletAddress |-> <<"0", "x", "a">>, walletChainId |-> 0]

NoUpload == [data |-> JsUndefined, text |-> <<>>, tagged |-> FALSE, tags |-> <<>>]

(* The registration file and context a specification starts from, before  *)
(* any function was applied to them.                                        *)
DocInit(files, chainIds, registries) ==
    /\ rec \in files
    /\ ctxChainId \in chainIds
    /\ ctxRegistry \in registries
    /\ tagsOut = <<>>
    /\ stPc = "idle"
    /\ stUpload = NoUpload
    /\ stTxId = <<>>
    /\ stErr = <<>>
    /\ stLoaded = ParseFailed

(* The state the document component is left in by the specifications of    *)
(* the other components.                                                    *)
DocParked == DocInit({PlainFile(<<>>)}, {0}, {<<>>})

(* The arguments of a call of generateArweaveFeedbackTags: a feedback file *)
(* whose fields are absent, of the expected type, empty, or of another     *)
(* type, and the optional agentId and clientAddress.                        *)
FeedbackTagCalls ==
    {[file |-> JsObj(<<Prop(TagText("score"), score), Prop(TagText("tag1"), tag1),
                       Prop(TagText("tag2"), tag2),
                       Prop(TagText("capability"), capability),
                       Prop(TagText("skill"), skill)>>),
      agentId |-> id,
      clientAddress |-> client] :
        score \in {JsUndefined, JsNum(0), JsNum(95), JsNaN, JsStr(<<"5">>)},
        tag1 \in {JsUndefined, JsStr(<<>>), JsStr(<<"h">>), JsNum(1)},
        tag2 \in {JsUndefined, JsStr(<<"a">>)},
        capability \in {JsUndefined, JsStr(<<>>), JsStr(<<"t">>)},
        skill \in {JsUndefined, JsStr(<<"c">>)},
        id \in {<<>>, AgentIdText("chainId:tokenId", SDK_CHAIN_ID, 789)},
        client \in {<<>>, <<"0", "x", "7">>}}

(* A call of generateArweaveFeedbackTags(rec.file, ctxChainId, rec.agentId, *)
(* rec.clientAddress) at instant now.                                       *)
GenerateFeedbackTags(now) ==
    /\ tagsOut = <<>>
    /\ tagsOut' = GenerateArweaveFeedbackTags(rec.file, ctxChainId, rec.agentId,
                                              rec.clientAddress, now)
    /\ UNCHANGED <<rec, ctxChainId, ctxRegistry, stPc, stUpload, stTxId, stErr, stLoaded>>
    /\ UNCHANGED <<getVars, regVars, fbVars, loadVars>>

(* A call of generateArweaveRegistrationTags(rec, ctxChainId) at instant    *)
(* now.                                                                     *)
GenerateTags(now) ==
    /\ tagsOut = <<>>
    /\ tagsOut' = GenerateArweaveRegistrationTags(rec, ctxChainId, now)
    /\ UNCHANGED <<rec, ctxChainId, ctxRegistry, stPc, stUpload, stTxId, stErr, stLoaded>>
    /\ UNCHANGED <<getVars, regVars, fbVars, loadVars>>

----------------------------------------------------------------------------
(* SDK._loadRegistrationFile *)

LoadText(str) ==
    CASE str = "ipfs://" -> <<"i", "p", "f", "s", ":", "/", "/">>
      [] str = "http://" -> <<"h", "t", "t", "p", ":", "/", "/">>
      [] str = "https://" -> <<"h", "t", "t", "p", "s", ":", "/", "/">>
      [] str = "data:" -> <<"d", "a", "t", "a", ":">>
      [] str = "https://arweave.net/" ->
            <<"h", "t", "t", "p", "s", ":", "/", "/", "a", "r", "w", "e", "a", "v",
              "e", ".", "n", "e", "t", "/">>
      [] str = "Failed to fetch from Arweave: HTTP " ->
            <<"F", "a", "i", "l", "e", "d", " ", "t", "o", " ", "f", "e", "t", "c",
              "h", " ", "f", "r", "o", "m", " ", "A", "r", "w", "e", "a", "v", "e",
              ":", " ", "H", "T", "T", "P", " ">>
      [] str = "Unsupported URI scheme: " ->
            <<"U", "n", "s", "u", "p", "p", "o", "r", "t", "e", "d", " ", "U", "R",
              "I", " ", "s", "c", "h", "e", "m", "e", ":", " ">>

(* A dispatch that takes whatever has no known prefix for an address to    *)
(* fetch.                                                                   *)
LoadBranchFetchesUnknown(uri) ==
    IF StartsWith(uri, LoadText("ipfs://")) THEN "ipfs"
    ELSE IF StartsWith(uri, AR_PREFIX) THEN "ar"
    ELSE IF StartsWith(uri, LoadText("data:")) THEN "data"
    ELSE IF uri = <<>> \/ Trim(uri) = <<>> THEN "empty"
    ELSE "http"

(* A dispatch without the branch for the empty URI. *)
LoadBranchWithoutEmpty(uri) ==
    IF StartsWith(uri, LoadText("ipfs://")) THEN "ipfs"
    ELSE IF StartsWith(uri, AR_PREFIX) THEN "ar"
    ELSE IF StartsWith(uri, LoadText("http://")) \/ StartsWith(uri, LoadText("https://"))
    THEN "http"
    ELSE IF StartsWith(uri, LoadText("data:")) THEN "data"
    ELSE "unsupported"

(* The if / else-if chain of _loadRegistrationFile: the branch taken. *)
LoadBranch(uri) ==
    IF StartsWith(uri, LoadText("ipfs://")) THEN "ipfs"
    ELSE IF StartsWith(uri, AR_PREFIX) THEN "ar"
    ELSE IF StartsWith(uri, LoadText("http://")) \/ StartsWith(uri, LoadText("https://"))
    THEN "http"
    ELSE IF StartsWith(uri, LoadText("data:")) THEN "data"
    ELSE IF uri = <<>> \/ Trim(uri) = <<>> THEN "empty"
    ELSE "unsupported"

(* What the branches do whose bodies the SDK keeps from before the Arweave  *)
(* integration: ipfs:// and http(s):// fetch, data: is an error, and the    *)
(* empty URI gives the registration file of an agent registered without    *)
(* a URI.                                                                   *)
ExistingHandling(branch) ==
    CASE branch = "ipfs" -> "fetch"
      [] branch = "http" -> "fetch"
      [] branch = "data" -> "throw"
      [] branch = "empty" -> "unconfigured"

TokenUris ==
    {p \o s : p \in {<<>>, LoadText("ipfs://"), AR_PREFIX, LoadText("http://"),
                      LoadText("https://"), LoadText("data:"),
                      <<"f", "t", "p", ":", "/", "/">>},
              s \in StringsUpTo(MaxIdLen)}

(* The text of a response: body 1 is the document stored on Arweave, any   *)
(* other body is not JSON.                                                  *)
ResponseText(body) == IF body = 1 THEN stUpload.text ELSE <<Tok("text", <<"<">>)>>

LoadInit(clients) ==
    /\ loadPc = "idle"
    /\ tokenUri = <<>>
    /\ loadClient \in clients
    /\ loadFetched = {}
    /\ loadResult = "none"
    /\ loadErr = <<>>

(* _loadRegistrationFile(uri) up to its first await or its end; the get    *)
(* variables are those of this._arweaveClient.                              *)
LoadStart(uri) ==
    /\ loadPc = "idle"
    /\ getPc = "idle"
    /\ tokenUri' = uri
    /\ LET branch == LoadBranch(uri)
       IN  IF branch = "ar" /\ loadClient
           THEN /\ GetStart(Slice(uri, 5))
                /\ loadPc' = "awaiting-client"
                /\ UNCHANGED <<loadFetched, loadResult, loadErr>>
           ELSE /\ UNCHANGED getVars
                /\ IF branch = "ar"
                   THEN /\ loadPc' = "fetching"
                        /\ loadFetched' = {LoadText("https://arweave.net/") \o Slice(uri, 5)}
                        /\ UNCHANGED <<loadResult, loadErr>>
                   ELSE IF branch = "unsupported"
                   THEN /\ loadPc' = "thrown"
                        /\ loadErr' = LoadText("Unsupported URI scheme: ") \o uri
                        /\ UNCHANGED <<loadFetched, loadResult>>
                   ELSE IF ExistingHandling(branch) = "fetch"
                   THEN /\ loadPc' = "fetching"
                        /\ loadFetched' = {uri}
                        /\ UNCHANGED <<loadResult, loadErr>>
                   ELSE IF ExistingHandling(branch) = "throw"
                   THEN /\ loadPc' = "thrown"
                        /\ UNCHANGED <<loadFetched, loadResult, loadErr>>
                   ELSE /\ loadPc' = "returned"
                        /\ loadResult' = "unconfigured"
                        /\ UNCHANGED <<loadFetched, loadErr>>
    /\ UNCHANGED loadClient

(* A call of _loadRegistrationFile from loadAgent. *)
LoadRegistrationFile(uri) ==
    /\ LoadStart(uri)
    /\ UNCHANGED <<regVars, fbVars, docVars>>

(* rawData is the parsed response; the load returns the registration file  *)
(* made of it, or throws the SyntaxError of JSON.parse.                     *)
LoadParsed(body) ==
    LET r == JsonParse(ResponseText(body))
    IN  /\ stLoaded' = r
        /\ loadPc' = IF r.ok THEN "returned" ELSE "thrown"
        /\ loadResult' = IF r.ok THEN "document" ELSE loadResult
        /\ UNCHANGED <<tokenUri, loadClient, loadFetched, loadErr>>

(* await this._arweaveClient.getJson(txId) resumes. *)
LoadResume ==
    /\ loadPc = "awaiting-client"
    /\ getPc \in {"returned", "thrown"}
    /\ IF getPc = "returned"
       THEN LoadParsed(getResult)
       ELSE /\ loadPc' = "thrown"
            /\ loadErr' = getError
            /\ UNCHANGED <<tokenUri, loadClient, loadFetched, loadResult, stLoaded>>
    /\ UNCHANGED <<rec, ctxChainId, ctxRegistry, tagsOut, stPc, stUpload, stTxId, stErr>>
    /\ UNCHANGED <<getVars, regVars, fbVars>>

(* The direct fetch answers with response.ok, and response.json() parses   *)
(* its body.                                                                *)
DirectFetchOk(body) ==
    /\ loadPc = "fetching"
    /\ LoadParsed(body)
    /\ UNCHANGED <<rec, ctxChainId, ctxRegistry, tagsOut, stPc, stUpload, stTxId, stErr>>
    /\ UNCHANGED <<getVars, regVars, fbVars>>

(* The direct fetch rejects, or answers with a status that is not ok. *)
DirectFetchFail(reason) ==
    /\ loadPc = "fetching"
    /\ loadPc' = "thrown"
    /\ loadErr' = IF LoadBranch(tokenUri) = "ar" /\ reason = "HTTP 404"
                  THEN LoadText("Failed to fetch from Arweave: HTTP ") \o <<"4", "0", "4">>
                  ELSE <<>>
    /\ UNCHANGED <<tokenUri, loadClient, loadFetched, loadResult>>
    /\ UNCHANGED <<getVars, regVars, fbVars, docVars>>

LoadNext ==
    \/ \E uri \in TokenUris : LoadRegistrationFile(uri)
    \/ \E g \in Gateways, body \in Payloads : FetchFulfil(g, body)
    \/ \E g \in Gateways, reason \in RejectReasons : FetchReject(g, reason)
    \/ GetResume
    \/ LoadResume
    \/ \E body \in Payloads : DirectFetchOk(body)
    \/ \E reason \in RejectReasons : DirectFetchFail(reason)

(* A registration file that was uploaded before the load. *)
DocUploaded ==
    /\ rec = FullFile(AgentIdText("chainId:0:tokenId", SDK_CHAIN_ID, 123))
    /\ ctxChainId = SDK_CHAIN_ID
    /\ ctxRegistry = REGISTRY_ADDRESS
    /\ tagsOut = <<>>
    /\ stPc = "uploaded"
    /\ stUpload = RegistrationUpload(rec, ctxChainId, ctxRegistry, 1)
    /\ stTxId = TxIdString(1)
    /\ stErr = <<>>
    /\ stLoaded = ParseFailed

----------------------------------------------------------------------------
(* Upload of a registration file with ArweaveClient.addRegistrationFile,   *)
(* and its read-back through the ar:// URI                                  *)

(* addRegistrationFile(rec, ctxChainId, ctxRegistry) at instant now, up to *)
(* the await of turbo.upload.                                               *)
AddRegistrationFile(now) ==
    /\ stPc = "idle"
    /\ stPc' = "uploading"
    /\ stUpload' = RegistrationUpload(rec, ctxChainId, ctxRegistry, now)
    /\ UNCHANGED <<rec, ctxChainId, ctxRegistry, tagsOut, stTxId, stErr, stLoaded>>
    /\ UNCHANGED <<getVars, regVars, fbVars, loadVars>>

(* turbo.upload resolves: add returns result.id. *)
TurboUploadOk ==
    /\ stPc = "uploading"
    /\ stPc' = "uploaded"
    /\ stTxId' = TxIdString(1)
    /\ UNCHANGED <<rec, ctxChainId, ctxRegistry, tagsOut, stUpload, stErr, stLoaded>>
    /\ UNCHANGED <<getVars, regVars, fbVars, loadVars>>

AddErrorAlwaysGeneric(message) ==
    <<"A", "r", "w", "e", "a", "v", "e", " ", "u", "p", "l", "o", "a", "d",
      " ", "f", "a", "i", "l", "e", "d", ":", " ">>
    \o message

(* The message of the Error add throws in its catch, from the message of   *)
(* the error turbo.upload rejected with.                                    *)
AddError(message) ==
    IF \/ Includes(message, <<"c", "r", "e", "d", "i", "t">>)
       \/ Includes(message, <<"b", "a", "l", "a", "n", "c", "e">>)
       \/ Includes(message, <<"i", "n", "s", "u", "f", "f", "i", "c", "i",
                                "e", "n", "t">>)
    THEN <<"T", "u", "r", "b", "o", " ", "u", "p", "l", "o", "a", "d", " ",
           "f", "a", "i", "l", "e", "d", " ", "d", "u", "e", " ", "t", "o",
           " ", "s", "e", "r", "v", "i", "c", "e", " ", "l", "i", "m", "i", "t",
           "s", ".", " ", "F", "i", "l", "e", "s", " ", "u", "n", "d", "e",
           "r", " ", "1", "0", "0", "K", "B", " ", "a", "r", "e", " ", "t",
           "y", "p", "i", "c", "a", "l", "l", "y", " ", "f", "r", "e", "e",
           ".", " ", "F", "o", "r", " ", "l", "a", "r", "g", "e", "r", " ",
           "f", "i", "l", "e", "s", " ", "o", "r", " ", "h", "i", "g", "h",
           " ", "v", "o", "l", "u", "m", "e", ",", " ", "v", "i", "s", "i", "t",
           " ", "h", "t", "t", "p", "s", ":", "/", "/", "t", "u", "r", "b",
           "o", ".", "a", "r", "d", "r", "i", "v", "e", ".", "i", "o", ".",
           " ", "D", "e", "t", "a", "i", "l", "s", ":", " ">>
         \o message
    ELSE <<"A", "r", "w", "e", "a", "v", "e", " ", "u", "p", "l", "o", "a",
           "d", " ", "f", "a", "i", "l", "e", "d", ":", " ">>
         \o message

(* turbo.upload rejects with an error of the given message: add throws. *)
TurboUploadFail(message) ==
    /\ stPc = "uploading"
    /\ stPc' = "failed"
    /\ stErr' = AddError(message)
    /\ UNCHANGED <<rec, ctxChainId, ctxRegistry, tagsOut, stUpload, stTxId, stLoaded>>
    /\ UNCHANGED <<getVars, regVars, fbVars, loadVars>>

(* The returned id is wrapped as ar://<id> and loaded. *)
LoadUploaded ==
    /\ stPc = "uploaded"
    /\ stPc' = "reading"
    /\ LoadStart(ArweaveUriFor(stTxId))
    /\ UNCHANGED <<rec, ctxChainId, ctxRegistry, tagsOut, stUpload, stTxId, stErr, stLoaded>>
    /\ UNCHANGED <<regVars, fbVars>>

StoreNext ==
    \/ \E now \in 1..NumInstants : AddRegistrationFile(now)
    \/ TurboUploadOk
    \/ \E message \in {<<"c", "r", "e", "d", "i", "t">>,
                       <<"n", "o", " ", "b", "a", "l", "a", "n", "c", "e">>,
                       <<"i", "n", "s", "u", "f", "f", "i", "c", "i", "e",
                         "n", "t">>,
                       <<"t", "i", "m", "e", "o", "u", "t">>,
                       <<>>} :
          TurboUploadFail(message)
    \/ LoadUploaded
    \/ \E g \in Gateways, body \in Payloads : FetchFulfil(g, body)
    \/ \E g \in Gateways : FetchReject(g, "HTTP 404")
    \/ GetResume
    \/ LoadResume
    \/ \E body \in Payloads : DirectFetchOk(body)
    \/ DirectFetchFail("HTTP 404")

----------------------------------------------------------------------------
(* Agent.registerIPFS and the guard it shares with registerArweave *)

(* A registerIPFS whose guard is a flag of its own: it is rejected only    *)
(* while another registerIPFS is in flight on the agent.                    *)
RegisterIPFSOwnFlag(c, a) ==
    /\ call[c].pc = "idle"
    /\ \A d \in Calls : d < c => call[d].pc # "idle"
    /\ \A b \in Agents : b < a => \E d \in Calls : call[d].agent = b
    /\ LET started == [call[c] EXCEPT !.agent = a, !.sawBusy = OtherInFlight(c, a),
                                      !.method = "ipfs"]
       IN  IF \E d \in Calls : d # c /\ call[d].agent = a /\ call[d].pc = "ipfs"
           THEN /\ call' = [call EXCEPT ![c] =
                               [started EXCEPT !.pc = "thrown", !.err = ERR_IN_PROGRESS]]
                /\ UNCHANGED inProgress
           ELSE /\ call' = [call EXCEPT ![c] = [started EXCEPT !.pc = "ipfs"]]
                /\ inProgress' = [inProgress EXCEPT ![a] = TRUE]
    /\ UNCHANGED <<hasArweaveClient, idForm, regValid, agentId, agentURI, dirty,
                   nextToken, nextTx, arweaveStore, setUriTxs>>
    /\ UNCHANGED <<getVars, fbVars, docVars, loadVars>>

(* registerIPFS() up to its first await: the guard, then the flag is set.   *)
RegisterIPFS(c, a) ==
    /\ call[c].pc = "idle"
    /\ \A d \in Calls : d < c => call[d].pc # "idle"
    /\ \A b \in Agents : b < a => \E d \in Calls : call[d].agent = b
    /\ LET started == [call[c] EXCEPT !.agent = a, !.sawBusy = OtherInFlight(c, a),
                                      !.method = "ipfs"]
       IN  IF GuardSet(a)
           THEN /\ call' = [call EXCEPT ![c] =
                               [started EXCEPT !.pc = "thrown", !.err = ERR_IN_PROGRESS]]
                /\ UNCHANGED inProgress
           ELSE /\ call' = [call EXCEPT ![c] = [started EXCEPT !.pc = "ipfs"]]
                /\ inProgress' = [inProgress EXCEPT ![a] = TRUE]
    /\ UNCHANGED <<hasArweaveClient, idForm, regValid, agentId, agentURI, dirty,
                   nextToken, nextTx, arweaveStore, setUriTxs>>
    /\ UNCHANGED <<getVars, fbVars, docVars, loadVars>>

(* The registration logic of registerIPFS ends and the finally block        *)
(* resets the flag: the agent is registered with an ipfs:// URI, or the     *)
(* call throws.                                                             *)
RegisterIPFSDone(c, ok) ==
    /\ call[c].pc = "ipfs"
    /\ LET a == call[c].agent
       IN  IF ok
           THEN /\ agentId' = [agentId EXCEPT ![a] = IF @ = 0 THEN nextToken ELSE @]
                /\ nextToken' = IF agentId[a] = 0 THEN nextToken + 1 ELSE nextToken
                /\ agentURI' = [agentURI EXCEPT ![a] = IpfsUriFor(CidString(nextTx))]
                /\ nextTx' = nextTx + 1
                /\ dirty' = [dirty EXCEPT ![a] = {}]
                /\ call' = [call EXCEPT ![c].pc = "returned"]
                /\ inProgress' = ReleaseOnReturn(inProgress, a)
           ELSE /\ ThrowFrom(c, "IPFS registration failed")
                /\ UNCHANGED <<agentId, nextToken, agentURI, nextTx, dirty>>
    /\ UNCHANGED <<hasArweaveClient, idForm, regValid, arweaveStore, setUriTxs>>
    /\ UNCHANGED <<getVars, fbVars, docVars, loadVars>>

----------------------------------------------------------------------------
(* Specifications, one per component; the other components stay parked. *)

InitGet == GetInit /\ RegParked /\ FbParked /\ DocParked /\ LoadInit({TRUE})

SpecGet == InitGet /\ [][GetNext]_vars

InitReg == RegInit /\ GetInit /\ FbParked /\ DocParked /\ LoadInit({TRUE})

SpecReg == InitReg /\ [][RegNext]_vars

InitFeedback == FbInit /\ GetInit /\ RegParked /\ DocParked /\ LoadInit({TRUE})

SpecFeedback == InitFeedback /\ [][FbNext]_vars

InitTags ==
    /\ DocInit(RegistrationFiles, {0, 1, SDK_CHAIN_ID}, {<<>>})
    /\ GetInit /\ RegParked /\ FbParked /\ LoadInit({TRUE})

SpecTags == InitTags /\ [][\E now \in 1..NumInstants : GenerateTags(now)]_vars

InitLoad == LoadInit(BOOLEAN) /\ GetInit /\ RegParked /\ FbParked /\ DocUploaded

SpecLoad == InitLoad /\ [][LoadNext]_vars

(* formatRegistrationFileForStorage applied by addRegistrationFile to every *)
(* registration file and context.                                           *)
InitFormat ==
    /\ DocInit(RegistrationFiles, {0, SDK_CHAIN_ID}, {<<>>, REGISTRY_ADDRESS})
    /\ LoadInit({TRUE}) /\ GetInit /\ RegParked /\ FbParked

SpecFormat == InitFormat /\ [][AddRegistrationFile(1)]_vars

(* Agents with name and description and an SDK with an Arweave client, on  *)
(* which both registration methods are called.                              *)
InitGuard ==
    /\ RegInit /\ hasArweaveClient /\ idForm = "chainId:tokenId"
    /\ \A a \in Agents : regValid[a]
    /\ GetInit /\ FbParked /\ DocParked /\ LoadInit({TRUE})

SpecGuard ==
    InitGuard /\
    [][\/ RegNext
       \/ \E c \in Calls, a \in Agents : RegisterIPFS(c, a)
       \/ \E c \in Calls, ok \in BOOLEAN : RegisterIPFSDone(c, ok)]_vars

InitFeedbackTags ==
    /\ DocInit(FeedbackTagCalls, {1, SDK_CHAIN_ID}, {<<>>})
    /\ GetInit /\ RegParked /\ FbParked /\ LoadInit({TRUE})

SpecFeedbackTags ==
    InitFeedbackTags /\ [][\E now \in 1..NumInstants : GenerateFeedbackTags(now)]_vars

InitStore ==
    /\ DocInit({PlainFile(id) : id \in AgentIds} \cup {FullFile(id) : id \in AgentIds},
               {0, SDK_CHAIN_ID}, {<<>>, REGISTRY_ADDRESS})
    /\ LoadInit(BOOLEAN) /\ GetInit /\ RegParked /\ FbParked

SpecStore == InitStore /\ [][StoreNext]_vars

(* Every fetch is bounded by its own AbortSignal.timeout, so each pending  *)
(* promise eventually settles, and the continuation of an await runs once  *)
(* its promise has settled.                                                 *)
FairGet ==
    /\ SpecGet
    /\ \A g \in Gateways :
          WF_vars(\E reason \in RejectReasons : FetchReject(g, reason))
    /\ WF_vars(GetResume)

----------------------------------------------------------------------------
(* Claims about ArweaveClient.get *)

Fulfilled == {g \in Gateways : fetchStatus[g] = "fulfilled"}

LowestFulfilled == CHOOSE g \in Fulfilled : \A h \in Fulfilled : g <= h

GetSettledAll == \A g \in Gateways : fetchStatus[g] \in {"fulfilled", "rejected"}

C2_AllFailThrowsWithId ==
    (getPc \in {"returned", "thrown"} /\ \A g \in Gateways : fetchStatus[g] = "rejected") =>
        /\ getPc = "thrown"
        /\ getResult = 0
        /\ StartsWith(getError, ALL_FAILED_MSG)
        /\ Includes(getError,
                    IF StartsWith(getArg, AR_PREFIX)
                    THEN SubSeq(getArg, Len(AR_PREFIX) + 1, Len(getArg))
                    ELSE getArg)

\* C2 witness: get was called with an ar:// URI, every gateway failed, one
\* of them by timeout and one by HTTP status, and get has thrown.
C2_Witness ==
    /\ getPc = "thrown"
    /\ StartsWith(getArg, AR_PREFIX)
    /\ \A g \in Gateways : fetchStatus[g] = "rejected"
    /\ \E g \in Gateways : fetchReason[g] = "TimeoutError"
    /\ \E g \in Gateways : fetchReason[g] = "HTTP 404"

C4_ReturnsOnFirstSuccess ==
    (getPc = "awaiting" /\ Fulfilled # {}) => ENABLED GetResume

WithoutArPrefix(arg) ==
    IF Len(arg) >= 5 /\ SubSeq(arg, 1, 5) = <<"a", "r", ":", "/", "/">>
    THEN SubSeq(arg, 6, Len(arg))
    ELSE arg

IsBlank(s) == \A i \in 1..Len(s) : s[i] = " "

(* The URLs get fetches when called with the identifier x. *)
UrlsFetchedFor(x) ==
    IF IsInvalidTxId(NormaliseTxId(x))
    THEN [g \in Gateways |-> <<>>]
    ELSE [g \in Gateways |-> GatewayUrl(g, NormaliseTxId(x))]

\* C15: a call of get with 'ar://' + x, x an identifier without the prefix,
\* fetches exactly the URLs that a call with x fetches, each a gateway
\* followed by '/' and x; and when x is empty or whitespace-only the call
\* has thrown the 'Invalid transaction ID' error and has issued no fetch.
C15_IdentifierNormalised ==
    getPc # "idle" =>
        LET x == WithoutArPrefix(getArg)
        IN  /\ fetchUrl = UrlsFetchedFor(x)
            /\ IsBlank(x) =>
                  /\ getPc = "thrown"
                  /\ Includes(getError,
                              <<"I", "n", "v", "a", "l", "i", "d", " ", "t", "r", "a", "n",
                                "s", "a", "c", "t", "i", "o", "n", " ", "I", "D">>)
                  /\ \A g \in Gateways : fetchStatus[g] = "none" /\ fetchUrl[g] = <<>>
            /\ ~IsBlank(x) =>
                  /\ getError # INVALID_TXID_MSG
                  /\ \A g \in Gateways :
                        /\ fetchStatus[g] # "none"
                        /\ fetchUrl[g] = ARWEAVE_GATEWAYS[g] \o <<"/">> \o x

\* C15 witness: get was called with ar://x, has fetched <gateway>/x from
\* every gateway, and has returned.
C15_Witness ==
    /\ getPc = "returned"
    /\ getArg = <<"a", "r", ":", "/", "/", "x">>
    /\ \A g \in Gateways : fetchUrl[g] = ARWEAVE_GATEWAYS[g] \o <<"/", "x">>

\* C30: get terminates.  Every fetch carries its own timeout, so every
\* pending fetch settles; then every call that is awaiting returns a payload
\* or throws, and once the last fetch has settled nothing else is waited
\* for: the continuation is ready to run.
C30_GetTerminates ==
    /\ (getPc = "awaiting") ~> (getPc \in {"returned", "thrown"})
    /\ []((getPc = "awaiting" /\ AllSettled(fetchStatus)) => ENABLED GetResume)

\* C30 witness: a call returned a payload although one gateway's fetch had
\* timed out.
C30_Witness ==
    /\ getPc = "returned"
    /\ getResult \in Payloads
    /\ \E g \in Gateways : fetchStatus[g] = "rejected" /\ fetchReason[g] = "TimeoutError"

----------------------------------------------------------------------------
(* Claims about Agent.registerArweave *)

InFlightOn(a) == {c \in Calls : call[c].agent = a /\ call[c].pc \in InFlightPcs}

\* C5: on every agent at most one registration call is between its start and
\* its end, and while there is one the guard is set; a call that started
\* while another was in flight on the same agent has thrown the 'already in
\* progress' error without having made any upload or on-chain call.
C5_SingleWriter ==
    /\ \A a \in Agents : Cardinality(InFlightOn(a)) <= 1
    /\ \A a \in Agents : InFlightOn(a) # {} => inProgress[a]
    /\ \A c \in Calls : call[c].sawBusy =>
          /\ call[c].pc = "thrown"
          /\ call[c].err = ERR_IN_PROGRESS
          /\ call[c].uploads = 0
          /\ call[c].chainCalls = 0

\* C5 witness: a call was rejected as already in progress while the call in
\* flight on the same agent is uploading and still holds the guard.
C5_Witness ==
    \E c, d \in Calls :
        /\ c # d
        /\ call[c].agent = call[d].agent
        /\ call[c].pc = "thrown" /\ call[c].err = ERR_IN_PROGRESS
        /\ call[d].pc = "uploading"
        /\ inProgress[call[d].agent]

\* C6: the guard of an agent is not set when no registration call is in
\* flight on it, whichever way the calls ended, and only a call that started
\* while another was in flight is rejected as already in progress.
C6_GuardReleased ==
    /\ \A a \in Agents : InFlightOn(a) = {} => ~inProgress[a]
    /\ \A c \in Calls : call[c].err = ERR_IN_PROGRESS => call[c].sawBusy

\* C6 witness: a call that held the guard threw at setAgentUri, and a later
\* call on the same agent got past the guard and returned.
C6_Witness ==
    \E c, d \in Calls :
        /\ c < d
        /\ call[c].agent = call[d].agent
        /\ call[c].pc = "thrown" /\ call[c].err = "setAgentUri transaction failed"
        /\ call[d].pc = "returned"

\* C10: a call has sent no setAgentUri before its upload has succeeded, and
\* the URI of the setAgentUri it sends is ar:// followed by the identifier
\* its own upload returned.
C10_UploadBeforeSetUri ==
    /\ \A c \in Calls :
          call[c].pc \in {"idle", "registering", "context", "uploading", "metadata"} =>
              /\ call[c].uri = <<>>
              /\ \A tx \in setUriTxs : tx.by # c
    /\ \A c \in Calls : call[c].uri # <<>> =>
          /\ call[c].uploads = 1
          /\ \E u \in arweaveStore :
                /\ u.by = c
                /\ u.txId = call[c].txId
                /\ call[c].uri = AR_PREFIX \o u.txId
    /\ \A tx \in setUriTxs :
          \E u \in arweaveStore : u.by = tx.by /\ tx.uri = AR_PREFIX \o u.txId

\* C10 witness: setAgentUri transactions of a first registration and of an
\* update were submitted, the second with the identifier of the second
\* upload.
C10_Witness ==
    \E t1, t2 \in setUriTxs :
        /\ call[t1.by].path = "first"
        /\ call[t2.by].path = "update"
        /\ t2.uri = AR_PREFIX \o TxIdString(2)
        /\ call[t2.by].pc = "waiting"

TagsOf(u) == {u.tags[i] : i \in 1..Len(u.tags)}

(* The agentId of the first registrations entry of an uploaded document. *)
StoredRegistrationId(text) ==
    LET doc == JsonParse(text).v
        regs == ValueOf(doc.o, DocText("registrations"))
    IN  IF regs.t = "array" /\ regs.a # <<>>
        THEN ValueOf(regs.a[1].o, DocText("agentId"))
        ELSE JsUndefined

\* C11 (as claimed): on the first-time path the agent has its identifier
\* before the document is uploaded; the uploaded document carries that
\* identifier in its registrations entry and the upload's tags carry it as
\* Agent-Id; and setAgentUri is submitted only afterwards, with ar://<txId>
\* of that upload.
C11_FirstRegistrationCarriesId ==
    /\ \A c \in Calls :
          (call[c].path = "first" /\ call[c].uploads > 0) => agentId[call[c].agent] # 0
    /\ \A u \in arweaveStore : call[u.by].path = "first" =>
          /\ u.agentId # 0
          /\ Tag("Agent-Id", AgentIdText(idForm, SDK_CHAIN_ID, u.agentId)) \in TagsOf(u)
          /\ StoredRegistrationId(u.text) = JsNum(u.agentId)
    /\ \A tx \in setUriTxs : call[tx.by].path = "first" =>
          \E u \in arweaveStore :
              u.by = tx.by /\ tx.uri = AR_PREFIX \o u.txId /\ tx.tokenId = u.agentId

LaterReturnedOn(c) ==
    {d \in Calls : d > c /\ call[d].agent = call[c].agent /\ call[d].pc = "returned"}

\* C12 (as claimed): on either path, a call whose wait for the confirmation
\* of setAgentUri timed out has not thrown: it has returned, and the
\* agent's agentURI is the URI it sent, until a later call replaces it.
C12_ConfirmationTimeoutSwallowed ==
    \A c \in Calls : call[c].timedOut =>
        /\ call[c].pc = "returned"
        /\ call[c].err = ""
        /\ LaterReturnedOn(c) = {} => agentURI[call[c].agent] = call[c].uri

CallAdvancesToUpload(c) ==
    /\ call'[c] # call[c]
    /\ call'[c].pc \in {"registering", "context", "uploading"}

CallFailsAtUpload(c) ==
    /\ call[c].pc = "uploading"
    /\ call'[c].pc = "thrown"

\* C13: a call that failed at the upload has thrown the upload's error and
\* has submitted no setAgentUri transaction, and no step of a call from its
\* start up to and including the failure of its upload changes agentURI,
\* the dirty set or the setAgentUri transactions.
C13_UploadFailureLeavesAgent ==
    /\ [](\A c \in Calls :
            (call[c].err \in UploadErrors \/ (call[c].pc = "thrown" /\ call[c].uploads = 1
                                               /\ call[c].txId = <<>>)) =>
                /\ call[c].pc = "thrown"
                /\ call[c].err \in UploadErrors
                /\ call[c].uri = <<>>
                /\ \A tx \in setUriTxs : tx.by # c)
    /\ [][\A c \in Calls :
            (CallAdvancesToUpload(c) \/ CallFailsAtUpload(c)) =>
                /\ agentURI' = agentURI
                /\ dirty' = dirty
                /\ setUriTxs' = setUriTxs]_vars

\* C13 witness: an update of a registered agent with dirty metadata failed
\* at the upload; the agent still has the URI of its first registration
\* and its dirty metadata.
C13_Witness ==
    \E c \in Calls :
        /\ call[c].pc = "thrown"
        /\ call[c].err \in UploadErrors
        /\ call[c].path = "update"
        /\ dirty[call[c].agent] # {}
        /\ agentURI[call[c].agent] = AR_PREFIX \o TxIdString(1)

\* C14: the step by which a call returns leaves the agent with an
\* identifier, with agentURI equal to ar:// followed by the identifier that
\* the upload of this call returned, and with an empty dirty set.
C14_ReturnedStateConsistent ==
    [][\A c \in Calls :
          (call[c].pc # "returned" /\ call'[c].pc = "returned") =>
              /\ agentId'[call[c].agent] # 0
              /\ dirty'[call[c].agent] = {}
              /\ \E u \in arweaveStore' :
                    /\ u.by = c
                    /\ agentURI'[call[c].agent] = AR_PREFIX \o u.txId]_vars

\* C14 witness: an update with dirty metadata has returned; the agent's URI
\* is that of the second upload and its dirty set is empty.
C14_Witness ==
    \E c \in Calls :
        /\ call[c].pc = "returned"
        /\ call[c].path = "update"
        /\ call[c].chainCalls = 3
        /\ dirty[call[c].agent] = {}
        /\ agentURI[call[c].agent] = AR_PREFIX \o TxIdString(2)

\* C28: the guard is one flag per agent, shared by registerIPFS and
\* registerArweave: a call of either method made while a call of either
\* method is in flight on the same agent has thrown 'Registration already in
\* progress', and no other call has: calls on different agents do not
\* reject each other.
C28_GuardSharedByMethods ==
    \A c \in Calls :
        call[c].pc # "idle" =>
            (call[c].sawBusy <=> (call[c].pc = "thrown" /\ call[c].err = ERR_IN_PROGRESS))

\* C28 witness: a registerArweave call was rejected while a registerIPFS
\* call was in flight on the same agent.
C28_Witness ==
    \E c, d \in Calls :
        /\ call[c].method = "ipfs" /\ call[c].pc = "ipfs"
        /\ call[d].method = "arweave" /\ call[d].agent = call[c].agent
        /\ call[d].pc = "thrown" /\ call[d].err = ERR_IN_PROGRESS

(* The calls of agent a whose registration with an empty URI succeeded. *)
MintedBy(a) ==
    {c \in Calls :
        /\ call[c].agent = a /\ call[c].method = "arweave" /\ call[c].path = "first"
        /\ call[c].pc # "registering"
        /\ ~(call[c].pc = "thrown" /\ call[c].err = "registration transaction failed")}

----------------------------------------------------------------------------
(* Claims about generateArweaveRegistrationTags *)

TagIndices(name) == {i \in 1..Len(tagsOut) : tagsOut[i].name = name}

TagValue(name) == tagsOut[CHOOSE i \in TagIndices(name) : TRUE].value

BaseTagNames ==
    {"Content-Type", "App-Name", "Protocol", "Data-Type", "Chain-Id", "Schema-Version"}

\* C19: the tag list of every registration file and chain id contains each
\* of the six base tags exactly once, contains Agent-Id if and only if the
\* file has an agentId, ends with Timestamp, and has 12 entries with an
\* agentId and 11 without.
C19_TagListShape ==
    tagsOut # <<>> =>
        /\ \A n \in BaseTagNames : Cardinality(TagIndices(n)) = 1
        /\ TagIndices("Agent-Id") # {} <=> rec.agentId # <<>>
        /\ TagIndices("Timestamp") = {Len(tagsOut)}
        /\ Len(tagsOut) = IF rec.agentId # <<>> THEN 12 ELSE 11

\* C19 witness: the tags of a file without agentId and with two endpoints
\* and a wallet were generated: 11 entries, Timestamp last.
C19_Witness ==
    /\ tagsOut # <<>>
    /\ rec.agentId = <<>>
    /\ Len(rec.endpoints) = 2
    /\ rec.walletAddress # <<>>
    /\ Len(tagsOut) = 11
    /\ tagsOut[11].name = "Timestamp"

FlagText(b) == IF b THEN <<"t", "r", "u", "e">> ELSE <<"f", "a", "l", "s", "e">>

HasEndpointOfType(type) ==
    \E i \in 1..Len(rec.endpoints) : rec.endpoints[i].type = type

\* C20: Has-MCP, Has-A2A, Has-Wallet and Active are present in every tag
\* list, once each; Has-MCP (Has-A2A) is "true" if and only if some endpoint
\* has type MCP (A2A), wherever it stands among the endpoints, and is
\* "false" otherwise, in particular when there is no endpoint.
C20_CapabilityFlags ==
    tagsOut # <<>> =>
        /\ \A n \in {"Has-MCP", "Has-A2A", "Has-Wallet", "Active"} :
              Cardinality(TagIndices(n)) = 1
        /\ TagValue("Has-MCP") = FlagText(HasEndpointOfType("MCP"))
        /\ TagValue("Has-A2A") = FlagText(HasEndpointOfType("A2A"))
        /\ rec.endpoints = <<>> =>
              /\ TagValue("Has-MCP") = <<"f", "a", "l", "s", "e">>
              /\ TagValue("Has-A2A") = <<"f", "a", "l", "s", "e">>

\* C20 witness: the only MCP endpoint stands second, after an ENS endpoint;
\* Has-MCP is "true" and Has-A2A is "false".
C20_Witness ==
    /\ tagsOut # <<>>
    /\ Len(rec.endpoints) = 2
    /\ rec.endpoints[1].type = "ENS"
    /\ rec.endpoints[2].type = "MCP"
    /\ TagValue("Has-MCP") = <<"t", "r", "u", "e">>
    /\ TagValue("Has-A2A") = <<"f", "a", "l", "s", "e">>

FeedbackField(key) == ValueOf(rec.file.o, TagText(key))

IsNonEmptyString(v) == v.t = "string" /\ v.s # <<>>

OptionalFeedbackTags ==
    {"Agent-Id", "Reviewer", "Score", "Tag1", "Tag2", "Capability", "Skill"}

\* C26: the feedback tag list has Score iff feedbackFile.score is of type
\* number (0 included); Tag1, Tag2, Capability and Skill iff the field is a
\* non-empty string; Agent-Id and Reviewer iff the argument is given; the
\* six base tags once each, Data-Type being agent-feedback; and Timestamp
\* last: 7 entries when no optional tag applies, 14 when all do.
C26_FeedbackTags ==
    tagsOut # <<>> =>
        /\ \A n \in BaseTagNames : Cardinality(TagIndices(n)) = 1
        /\ TagValue("Data-Type")
              = <<"a", "g", "e", "n", "t", "-", "f", "e", "e", "d", "b", "a", "c", "k">>
        /\ TagIndices("Score") # {} <=> FeedbackField("score").t \in {"number", "NaN"}
        /\ FeedbackField("score") = JsNum(0) => TagValue("Score") = <<"0">>
        /\ TagIndices("Tag1") # {} <=> IsNonEmptyString(FeedbackField("tag1"))
        /\ TagIndices("Tag2") # {} <=> IsNonEmptyString(FeedbackField("tag2"))
        /\ TagIndices("Capability") # {} <=> IsNonEmptyString(FeedbackField("capability"))
        /\ TagIndices("Skill") # {} <=> IsNonEmptyString(FeedbackField("skill"))
        /\ TagIndices("Agent-Id") # {} <=> rec.agentId # <<>>
        /\ TagIndices("Reviewer") # {} <=> rec.clientAddress # <<>>
        /\ TagIndices("Timestamp") = {Len(tagsOut)}
        /\ Len(tagsOut) = 7 + Cardinality({n \in OptionalFeedbackTags : TagIndices(n) # {}})

\* C26 witness: the tags of a feedback file with score 0, an empty tag1 and
\* no other optional field, generated without agentId and clientAddress:
\* eight entries, Score '0' among them and Tag1 not.
C26_Witness ==
    /\ Len(tagsOut) = 8
    /\ FeedbackField("score") = JsNum(0)
    /\ FeedbackField("tag1") = JsStr(<<>>)
    /\ TagValue("Score") = <<"0">>
    /\ TagIndices("Tag1") = {}

----------------------------------------------------------------------------
(* Claims about SDK._loadRegistrationFile *)

NoFetchIssued ==
    /\ loadFetched = {}
    /\ \A g \in Gateways : fetchStatus[g] = "none"

HasPrefix(uri, p) == Len(uri) >= Len(p) /\ SubSeq(uri, 1, Len(p)) = p

HasFetchableScheme(uri) ==
    \/ HasPrefix(uri, <<"i", "p", "f", "s", ":", "/", "/">>)
    \/ HasPrefix(uri, <<"a", "r", ":", "/", "/">>)
    \/ HasPrefix(uri, <<"h", "t", "t", "p", ":", "/", "/">>)
    \/ HasPrefix(uri, <<"h", "t", "t", "p", "s", ":", "/", "/">>)

----------------------------------------------------------------------------
(* Claims about formatRegistrationFileForStorage *)

Formatted == stPc = "uploading"

DocKeys == {stUpload.data.o[i].k : i \in 1..Len(stUpload.data.o)}

DocValue(key) == ValueOf(stUpload.data.o, DocText(key))

\* C21: the formatted document always has type, name, description,
\* endpoints, active and x402support; it has image iff the record's image
\* is non-empty, registrations iff the record has an agentId, and
\* supportedTrusts iff the record's trust models are not empty.
C21_RequiredAndOptionalFields ==
    Formatted =>
        /\ \A key \in {"type", "name", "description", "endpoints", "active", "x402support"} :
              DocText(key) \in DocKeys
        /\ DocText("image") \in DocKeys <=> rec.image # <<>>
        /\ DocText("registrations") \in DocKeys <=> rec.agentId # <<>>
        /\ DocText("supportedTrusts") \in DocKeys <=> rec.trustModels # <<>>
        /\ Len(stUpload.data.o) = Cardinality(DocKeys)
        /\ DocValue("active") = JsBool(rec.active)
        /\ DocValue("x402support") = JsBool(rec.x402support)

\* C21 witness: a record with an agentId and an image but without trust
\* models was formatted into a document of eight fields.
C21_Witness ==
    /\ Formatted
    /\ rec.agentId # <<>>
    /\ rec.image # <<>>
    /\ rec.trustModels = <<>>
    /\ Cardinality(DocKeys) = 8

ExpectedWalletChain ==
    IF rec.walletChainId # 0 THEN rec.walletChainId
    ELSE IF ctxChainId # 0 THEN ctxChainId ELSE 1

IsWalletEndpoint(e) == ValueOf(e.o, DocText("name")) = JsStr(DocText("agentWallet"))

\* C22: the document's endpoints are the record's endpoints in their
\* order, followed, when the record has a wallet address, by exactly one
\* agentWallet endpoint 'eip155:<c>:<address>' with c the wallet's chain id
\* if set, else the chainId argument if given, else 1; without a wallet
\* address there is no agentWallet endpoint.
C22_EndpointOrderAndWallet ==
    Formatted =>
        LET eps == DocValue("endpoints").a
            n == Len(rec.endpoints)
        IN  /\ Len(eps) = n + (IF rec.walletAddress # <<>> THEN 1 ELSE 0)
            /\ \A i \in 1..n :
                  /\ ValueOf(eps[i].o, DocText("name"))
                        = JsStr(EndpointTypeText(rec.endpoints[i].type))
                  /\ ValueOf(eps[i].o, DocText("endpoint")) = JsStr(rec.endpoints[i].value)
            /\ rec.walletAddress # <<>> =>
                  /\ IsWalletEndpoint(eps[n + 1])
                  /\ ValueOf(eps[n + 1].o, DocText("endpoint"))
                        = JsStr(<<"e", "i", "p", "1", "5", "5", ":">>
                                \o NatToString(ExpectedWalletChain) \o <<":">>
                                \o rec.walletAddress)
            /\ Cardinality({i \in 1..Len(eps) : IsWalletEndpoint(eps[i])})
                  = IF rec.walletAddress # <<>> THEN 1 ELSE 0

\* C22 witness: a record with two endpoints and a wallet whose chain id is
\* not set was formatted with chainId 11155111: the third endpoint is the
\* agentWallet on that chain.
C22_Witness ==
    /\ Formatted
    /\ Len(rec.endpoints) = 2
    /\ rec.endpoints[1].type = "A2A"
    /\ rec.endpoints[2].type = "MCP"
    /\ rec.walletAddress # <<>>
    /\ rec.walletChainId = 0
    /\ ctxChainId = 11155111
    /\ Len(DocValue("endpoints").a) = 3

RegistrationEntries == DocValue("registrations").a

\* C23: for a record with an agentId the document has one registrations
\* entry, whose agentRegistry is 'eip155:<chainId>:<registry address>'
\* when the chain id and the registry address are both given, and the
\* placeholder 'eip155:1:{identityRegistry}' otherwise.
C23_AgentRegistry ==
    (Formatted /\ rec.agentId # <<>>) =>
        /\ Len(RegistrationEntries) = 1
        /\ ValueOf(RegistrationEntries[1].o, DocText("agentRegistry"))
              = IF ctxChainId # 0 /\ ctxRegistry # <<>>
                THEN JsStr(<<"e", "i", "p", "1", "5", "5", ":">> \o NatToString(ctxChainId)
                           \o <<":">> \o ctxRegistry)
                ELSE JsStr(<<"e", "i", "p", "1", "5", "5", ":", "1", ":", "{", "i", "d",
                             "e", "n", "t", "i", "t", "y", "R", "e", "g", "i", "s", "t",
                             "r", "y", "}">>)

\* C23 witness: a record with an agentId was formatted with the chain id
\* 11155111 and without registry address: the entry has the placeholder.
C23_Witness ==
    /\ Formatted
    /\ rec.agentId # <<>>
    /\ ctxChainId = 11155111
    /\ ctxRegistry = <<>>
    /\ ValueOf(RegistrationEntries[1].o, DocText("agentRegistry"))
          = JsStr(DocText("eip155:1:{identityRegistry}"))

\* C27 as claimed: for a record with an agentId of either form,
\* '11155111:123' or '11155111:0:123', the registrations entry's agentId
\* is the number 123.
C27_TokenIdIsNumber ==
    (Formatted /\ rec.agentId # <<>>) =>
        ValueOf(RegistrationEntries[1].o, DocText("agentId")) = JsNum(123)

\* C24: the document addRegistrationFile uploads is
\* formatRegistrationFileForStorage(rec, ctxChainId, ctxRegistry), the value
\* the IPFS client computes from the same arguments, and the text uploaded
\* is its JSON text; the tags are no part of it: they are handed over beside
\* it, and only when a chain id is given; and the call leaves the
\* registration file and the context as they were.
C24_UploadsFormattedDocument ==
    /\ [](Formatted =>
            /\ stUpload.data = FormatRegistrationFileForStorage(rec, ctxChainId, ctxRegistry)
            /\ stUpload.text = Stringify(stUpload.data)
            /\ stUpload.tagged <=> ctxChainId # 0
            /\ ~stUpload.tagged => stUpload.tags = <<>>
            /\ stUpload.tagged =>
                  \E now \in 1..NumInstants :
                      stUpload.tags = GenerateArweaveRegistrationTags(rec, ctxChainId, now))
    /\ [][rec' = rec /\ ctxChainId' = ctxChainId /\ ctxRegistry' = ctxRegistry]_vars

\* C24 witness: a registered agent's file was formatted and tagged with
\* chain id and registry address: a document with a registrations entry
\* and, beside it, twelve tags.
C24_Witness ==
    /\ Formatted
    /\ rec.agentId # <<>>
    /\ ctxChainId = 11155111
    /\ ctxRegistry # <<>>
    /\ Len(RegistrationEntries) = 1
    /\ Len(stUpload.tags) = 12

----------------------------------------------------------------------------
(* Claims about the round trip of a registration file *)

ReadBack ==
    /\ stPc = "reading"
    /\ loadPc = "returned"
    /\ loadResult = "document"

HasQuotaWord(s) ==
    \/ Includes(s, <<"c", "r", "e", "d", "i", "t">>)
    \/ Includes(s, <<"b", "a", "l", "a", "n", "c", "e">>)
    \/ Includes(s, <<"i", "n", "s", "u", "f", "f", "i", "c", "i", "e", "n", "t">>)

GenericPrefix ==
    <<"A", "r", "w", "e", "a", "v", "e", " ", "u", "p", "l", "o", "a", "d",
      " ", "f", "a", "i", "l", "e", "d", ":", " ">>

\* C25: add makes one upload attempt: once the attempt has settled the call
\* has returned or thrown and uploads nothing more. When the attempt
\* rejected with a message containing 'credit', 'balance' or 'insufficient',
\* the error thrown is the service-limits error, which carries the hint to
\* visit https://turbo.ardrive.io and the message; for every other message
\* it is 'Arweave upload failed: ' followed by the message. When the attempt
\* succeeded, the call returned the transaction id.
C25_SingleAttemptClassified ==
    /\ [](stPc = "failed" =>
            \/ /\ HasPrefix(stErr, GenericPrefix)
               /\ ~HasQuotaWord(SubSeq(stErr, Len(GenericPrefix) + 1, Len(stErr)))
            \/ /\ HasPrefix(stErr, <<"T", "u", "r", "b", "o", " ", "u", "p", "l",
                                 "o", "a", "d", " ", "f", "a", "i", "l", "e",
                                 "d", " ", "d", "u", "e", " ", "t", "o", " ",
                                 "s", "e", "r", "v", "i", "c", "e", " ", "l",
                                 "i", "m", "i", "t", "s", ".", " ">>)
               /\ Includes(stErr, <<"h", "t", "t", "p", "s", ":", "/", "/", "t",
                                "u", "r", "b", "o", ".", "a", "r", "d", "r",
                                "i", "v", "e", ".", "i", "o">>)
               /\ HasQuotaWord(stErr))
    /\ [](stPc \in {"uploaded", "reading"} => stTxId = <<"t", "x", "1">> /\ stErr = <<>>)
    /\ [][(stPc = "uploading" /\ stPc' # stPc) => stPc' \in {"uploaded", "failed"}]_vars
    /\ [][(stPc \in {"uploaded", "reading", "failed"}) =>
              (stUpload' = stUpload /\ stPc' # "uploading")]_vars

\* C25 witness: the upload was rejected with 'no balance' and add has thrown
\* the service-limits error.
C25_Witness ==
    /\ stPc = "failed"
    /\ Includes(stErr, <<"D", "e", "t", "a", "i", "l", "s", ":", " ",
                         "n", "o", " ", "b", "a", "l", "a", "n", "c", "e">>)
    /\ Includes(stErr, <<"s", "e", "r", "v", "i", "c", "e", " ", "l", "i", "m", "i", "t", "s">>)

\* C18 as claimed: when a registration file was uploaded with
\* addRegistrationFile and read back through ar://<id>, a gateway serving
\* the uploaded bytes unchanged, the document read is equal to
\* formatRegistrationFileForStorage(rec, ctxChainId, ctxRegistry).
C18_RoundTripEqualsFormatted ==
    ReadBack => stLoaded.v = FormatRegistrationFileForStorage(rec, ctxChainId, ctxRegistry)

----------------------------------------------------------------------------
(* Claims about FeedbackManager.giveFeedback *)

FbPastStorage == fbPc \in {"submitting", "returned", "thrown"}

\* C7 (as claimed): with both clients configured, when the Arweave upload
\* has thrown the IPFS upload is attempted, and when that succeeds the
\* feedback URI is ipfs://<cid>.
C7_FallsBackToIpfs ==
    (fbArweave /\ fbIpfs /\ FbPastStorage /\ fbOutcome["arweave"] = "failed") =>
        /\ "ipfs" \in fbTried
        /\ fbOutcome["ipfs"] = "ok" => fbUri = IPFS_PREFIX \o fbStoredId

\* C8: no giveFeedback call throws an upload error; when every upload a call
\* attempted failed, the call goes on to the on-chain transaction with no
\* feedback URI, and when that transaction succeeds the call returns and
\* the feedback is recorded on-chain without a URI.
C8_StorageFailureSwallowed ==
    /\ fbErr \notin FeedbackUploadErrors
    /\ (fbTried # {} /\ \A b \in fbTried : fbOutcome[b] = "failed") =>
          /\ FbPastStorage
          /\ fbUri = <<>>
          /\ fbPc = "submitting" => ENABLED FeedbackSubmitDone(TRUE)
          /\ fbPc = "returned" => fbChain[Len(fbChain)] = <<>>
          /\ fbPc = "thrown" => fbErr = "giveFeedback transaction failed"

\* C8 witness: the only upload attempted failed and the call returned with
\* the feedback recorded on-chain without a URI.
C8_Witness ==
    /\ fbPc = "returned"
    /\ fbOutcome["arweave"] = "failed"
    /\ fbUri = <<>>
    /\ fbChain # <<>> /\ fbChain[Len(fbChain)] = <<>>

\* C9: with both clients configured, a call attempts the Arweave upload
\* first; when it succeeds the feedback URI is ar://<txId> and no IPFS
\* upload is attempted.
C9_ArweaveFirst ==
    (fbArweave /\ fbIpfs /\ fbPc # "idle") =>
        /\ "arweave" \in fbTried
        /\ "ipfs" \in fbTried => fbOutcome["arweave"] = "failed"
        /\ fbOutcome["arweave"] = "ok" =>
              /\ fbStoredId # <<>>
              /\ fbUri = AR_PREFIX \o fbStoredId
              /\ "ipfs" \notin fbTried

\* C9 witness: with both clients configured the Arweave upload succeeded and
\* the call returned with the ar:// URI recorded on-chain.
C9_Witness ==
    /\ fbArweave /\ fbIpfs
    /\ fbPc = "returned"
    /\ fbOutcome["arweave"] = "ok"
    /\ fbUri = AR_PREFIX \o fbStoredId
    /\ fbChain[Len(fbChain)] = fbUri

=============================================================================
